---------------------------- MODULE Spec2Model ----------------------------
(***************************************************************************)
(* Model of TranslateConverter.receive_layout                              *)
(* (src/scholar_parser/converter.py): the paragraph/formula builder (part  *)
(* A), the translation dispatcher (part B) and the content stream composer *)
(* (part C).                                                               *)
(*                                                                         *)
(* Texts are sequences of one-character strings.  Lengths are integers;    *)
(* the line-height multiplier is kept in twentieths (steps of 0.05).       *)
(***************************************************************************)
EXTENDS Integers, Sequences, FiniteSets, TLC

VARIABLES
    pc,       \* position of receive_layout
    evs,      \* history: the events of ltpage consumed so far
    \* ---- part A (converter.py 149-166)
    sstk, pstk, vbkt, vstk, vlstk, vfix, var, varl, varf, vlen, lstk, xt, xt_cls,
    \* ---- part B (converter.py 325-341)
    thread,   \* self.thread, the max_workers of the pool
    fut,      \* the futures of executor.map, one per paragraph text
    nxt,      \* index of the future whose result the main thread awaits
    news,     \* the translated texts collected so far
    failure,  \* the exception travelling to the caller ("" if none)
    calls,    \* history: translator.translate calls made per paragraph (saturating)
    failed,   \* history: some translate call of the paragraph raised
    order,    \* history: paragraph indices in the order their futures completed
    \* ---- part C (converter.py 357-505)
    lang_out, \* self.translator.lang_out
    id,       \* index of the paragraph being composed
    cs,       \* the locals of one paragraph's walk: x, cstk, fcur, fcur_, lidx, tx, ptr, ops_vals
    line_height,
    ops_list, \* operator records produced so far
    ops,      \* the returned operator stream (<<>> until returned)
    debug,    \* log.isEnabledFor(logging.DEBUG)
    _x, _y,   \* the end point of the last trace line drawn under debug logging
    \* ---- a translator (translator.py 26-91)
    ignore_cache, \* self.ignore_cache
    params,       \* the parameters of self.cache, a set of <<key, value>>
    cache,        \* the stored translations, rows [params, text, translation]
    self_n,       \* AutoIncreaseTranslator.n: do_translate calls made, str(n) returned
    log,          \* history: the calls made on the translator and their outcomes
    \* ---- one call of BedrockTranslator.do_translate (translator.py 269-326)
    attempt,      \* the outcomes of the invoke_model attempts made so far
    result,       \* how the call ended (Pending while it runs)
    \* ---- ConfigManager and its callers (config.py 8-125, mcp_server.py 178-214)
    _instance,    \* ConfigManager._instance: the number of an instance, 0 for None
    _lock,        \* ConfigManager._lock: the thread holding it, 0 when free
    _config_data, \* per instance made, the <<key, value>> items it holds, in dict order
    config_json,  \* per instance made, the items last written to its config file
    made,         \* history: per instance made, the classmethod that made it
    at,           \* per thread, the call it runs and the line it has reached
    reply         \* per thread, what its call returned

vars == <<pc, evs, sstk, pstk, vbkt, vstk, vlstk, vfix, var, varl, varf, vlen, lstk,
          xt, xt_cls, thread, fut, nxt, news, failure, calls, failed, order,
          lang_out, id, cs, line_height, ops_list, ops, debug, _x, _y,
          ignore_cache, params, cache, self_n, log,
          attempt, result, _instance, _lock, _config_data, config_json, made, at,
          reply>>

\* the state of receive_layout
converterVars == <<pc, evs, sstk, pstk, vbkt, vstk, vlstk, vfix, var, varl, varf, vlen,
                   lstk, xt, xt_cls, thread, fut, nxt, news, failure, calls, failed,
                   order, lang_out, id, cs, line_height, ops_list, ops, debug, _x, _y>>

\* the state outside receive_layout
libraryVars == <<ignore_cache, params, cache, self_n, log,
                 attempt, result, _instance, _lock, _config_data, config_json, made, at,
          reply>>

translatorVars == <<ignore_cache, params, cache, self_n, log>>

bedrockVars == <<attempt, result>>

configVars == <<_instance, _lock, _config_data, config_json, made, at, reply>>

-----------------------------------------------------------------------------
(* Bounds                                                                  *)

MaxEvents == 3

MaxCalls == 2

MaxThread == 2

MaxOps == 4

-----------------------------------------------------------------------------
(* Generic helpers                                                         *)

Last(s) == s[Len(s)]

Abs(n) == IF n < 0 THEN -n ELSE n

Max2(a, b) == IF a > b THEN a ELSE b

Min2(a, b) == IF a < b THEN a ELSE b

RECURSIVE SeqMax(_)
SeqMax(s) == IF Len(s) = 1 THEN s[1] ELSE Max2(s[1], SeqMax(Tail(s)))

SetLast(s, v) == [s EXCEPT ![Len(s)] = v]

RECURSIVE Concat(_)
Concat(ss) == IF ss = <<>> THEN <<>> ELSE ss[1] \o Concat(Tail(ss))

-----------------------------------------------------------------------------
(* Characters and strings                                                  *)

Digits == <<"0", "1", "2", "3", "4", "5", "6", "7", "8", "9">>

IsDigit(c) == \E k \in 1..10 : Digits[k] = c

DigitVal(c) == (CHOOSE k \in 1..10 : Digits[k] = c) - 1

\* the characters str.strip() and the regex class \s remove or match
IsSpace(c) == c \in {" ", "\n"}

RECURSIVE LStrip(_)
LStrip(s) == IF s # <<>> /\ IsSpace(s[1]) THEN LStrip(Tail(s)) ELSE s

RECURSIVE RStrip(_)
RStrip(s) == IF s # <<>> /\ IsSpace(Last(s)) THEN RStrip(SubSeq(s, 1, Len(s) - 1)) ELSE s

Strip(s) == RStrip(LStrip(s))

\* str(n) of a non-negative integer, as in an f-string
RECURSIVE IntToChars(_)
IntToChars(n) == IF n < 10 THEN <<Digits[n + 1]>>
                 ELSE IntToChars(n \div 10) \o <<Digits[(n % 10) + 1]>>

\* int(s) of a non-empty all-digit string
RECURSIVE CharsToInt(_)
CharsToInt(s) == IF Len(s) = 1 THEN DigitVal(s[1])
                 ELSE 10 * CharsToInt(SubSeq(s, 1, Len(s) - 1)) + DigitVal(Last(s))

AllDigits(s) == \A k \in 1..Len(s) : IsDigit(s[k])

-----------------------------------------------------------------------------
(* Events of a page                                                        *)

\* ltpage.width
PageWidth == 40

\* region ids the class map holds; 0 is the reserved region
Regions == {0, 1, 2}

\* font names: one ordinary text font, one the built-in formula pattern matches
TextFont == "Times"

MathFont == "CMMI10"

Fonts == {TextFont, MathFont}

\* the character U+2022
Bullet == "bullet"

NoGlyph == [kind |-> "none"]

\* an LTChar: decoded text, font, size, box, class-map region at its anchor,
\* whether matrix[0] = matrix[3] = 0, the raw code (cid) and the advance width
Glyph(t, f, c, x, y, sz) ==
    [kind |-> "char", text |-> t, font |-> f, cls |-> c, size |-> sz,
     x0 |-> x, x1 |-> x + 2, y0 |-> y, y1 |-> y + sz, vert |-> FALSE,
     cid |-> t, width |-> 2]

\* an LTLine: end points, stroke width and class-map region at its first point
Line(c, x, y, dx, dy, w) ==
    [kind |-> "line", cls |-> c, x0 |-> x, y0 |-> y, x1 |-> x + dx, y1 |-> y + dy,
     linewidth |-> w]

Figure == [kind |-> "figure"]

\* glyphs offered to the builder: text glyphs of regions 1 and 2 at the left
\* edge, adjacent to it and far from it; formula-font glyphs; region-0 glyphs;
\* brackets, a space, a bullet, a subscript-sized and an enlarged glyph
Glyphs ==
    { Glyph("a", TextFont, 1, x, 50, 10) : x \in {0, 2, 20} }
    \cup { Glyph("x", MathFont, c, 2, 52, 10) : c \in {0, 1} }
    \cup { Glyph("a", TextFont, 2, 20, 50, 10),
           Glyph("x", MathFont, 1, 20, 52, 10),
           Glyph("a", TextFont, 0, 2, 50, 10),
           Glyph("(", TextFont, 1, 4, 50, 10),
           Glyph(")", TextFont, 1, 6, 50, 10),
           Glyph(" ", TextFont, 1, 4, 50, 10),
           Glyph(Bullet, TextFont, 1, 2, 50, 10),
           Glyph("a", TextFont, 1, 4, 48, 7),
           Glyph("a", TextFont, 1, 4, 50, 12),
           [Glyph("a", TextFont, 1, 4, 50, 10) EXCEPT !.vert = TRUE] }

Lines == { Line(c, 2, 49, 4, 0, 1) : c \in {0, 1} }

-----------------------------------------------------------------------------
(* Part A: the paragraph builder (converter.py 147-319)                    *)

\* class Paragraph
Paragraph(y, x, x0, x1, y0, y1, size, brk) ==
    [y |-> y, x |-> x, x0 |-> x0, x1 |-> x1, y0 |-> y0, y1 |-> y1,
     size |-> size, brk |-> brk]

\* unicodedata.category(c) in Lm, Mn, Sk, Sm, Zl, Zp, Zs, or c a Greek letter,
\* for the characters of the model
IsFormulaChar(c) == c \in {"+", "=", "^"}

\* vflag(font, char): the built-in font-name pattern and character rule
\* (self.vfont and self.vchar unset)
vflag(font, char) ==
    \/ font = MathFont
    \/ (char # "" /\ char # " " /\ IsFormulaChar(char))

\* the marker f"{{v{n}}}" with n = len(var)
PlaceholderIndexOneBased(n) == n + 1

PlaceholderIndex(n) == n

Placeholder(n) == <<"{", "v">> \o IntToChars(PlaceholderIndex(n)) \o <<"}">>

\* the locals of part A at the start of receive_layout
InitBuilder ==
    [sstk |-> <<>>, pstk |-> <<>>, vbkt |-> 0, vstk |-> <<>>, vlstk |-> <<>>,
     vfix |-> 0, var |-> <<>>, varl |-> <<>>, varf |-> <<>>, vlen |-> <<>>,
     lstk |-> <<>>, xt |-> NoGlyph, xt_cls |-> -1]

\* the class of a glyph: its class-map region, forced to 0 for a bullet
GlyphClass(child) == IF child.text = Bullet THEN 0 ELSE child.cls

\* lines 219-225: the classification cascade
IsFormulaGlyph(b, child) ==
    LET cls == GlyphClass(child)
    IN  \/ cls = 0
        \/ (cls = b.xt_cls /\ Len(Strip(Last(b.sstk))) > 1
                /\ 100 * child.size < 79 * Last(b.pstk).size)
        \/ vflag(child.font, child.text)
        \/ child.vert

\* lines 226-233 with the closing parenthesis bridged inside an open run only
BridgeInsideRun(b, child, cur_v0) ==
    LET open  == ~cur_v0 /\ b.vstk # <<>> /\ child.text = "("
        vbkt1 == IF open THEN b.vbkt + 1 ELSE b.vbkt
        close == ~cur_v0 /\ b.vstk # <<>> /\ vbkt1 # 0 /\ child.text = ")"
        vbkt2 == IF close THEN vbkt1 - 1 ELSE vbkt1
    IN  <<cur_v0 \/ open \/ close, vbkt2>>

\* lines 226-233: bracket bridging; the result is <<cur_v, vbkt>>
Bridge(b, child, cur_v0) ==
    LET open  == ~cur_v0 /\ b.vstk # <<>> /\ child.text = "("
        vbkt1 == IF open THEN b.vbkt + 1 ELSE b.vbkt
        close == ~cur_v0 /\ vbkt1 # 0 /\ child.text = ")"
        vbkt2 == IF close THEN vbkt1 - 1 ELSE vbkt1
    IN  <<cur_v0 \/ open \/ close, vbkt2>>

\* lines 234-242 without the distance test
FormulaEndsOnClass(b, child, cur_v) ==
    LET cls == GlyphClass(child)
    IN  \/ ~cur_v
        \/ cls # b.xt_cls

\* lines 234-242: does the open formula run end at this glyph
FormulaEnds(b, child, cur_v) ==
    LET cls == GlyphClass(child)
    IN  \/ ~cur_v
        \/ cls # b.xt_cls
        \/ (Last(b.sstk) # <<>> /\ 4 * Abs(child.x0 - b.xt.x0) > PageWidth)

\* lines 243-258 with the previous region kept after a flush into an empty text
FlushKeepRegion(b, child, cur_v) ==
    LET cls == GlyphClass(child)
        fix == IF /\ ~cur_v
                  /\ cls = b.xt_cls
                  /\ child.x0 > SeqMax([k \in 1..Len(b.vstk) |-> b.vstk[k].x0])
               THEN b.vstk[1].y0 - child.y0
               ELSE b.vfix
    IN  [b EXCEPT !.sstk   = SetLast(b.sstk, Last(b.sstk) \o Placeholder(Len(b.var))),
                  !.var    = Append(b.var, b.vstk),
                  !.varl   = Append(b.varl, b.vlstk),
                  !.varf   = Append(b.varf, fix),
                  !.vstk   = <<>>,
                  !.vlstk  = <<>>,
                  !.vfix   = 0]

\* lines 243-258 with the vertical offset not recorded
FlushNoOffset(b, child, cur_v) ==
    [b EXCEPT !.xt_cls = IF Last(b.sstk) = <<>> THEN -1 ELSE b.xt_cls,
              !.sstk   = SetLast(b.sstk, Last(b.sstk) \o Placeholder(Len(b.var))),
              !.var    = Append(b.var, b.vstk),
              !.varl   = Append(b.varl, b.vlstk),
              !.vstk   = <<>>,
              !.vlstk  = <<>>,
              !.vfix   = 0]

\* lines 243-258: pop the open formula run into the tables
Flush(b, child, cur_v) ==
    LET cls == GlyphClass(child)
        fix == IF /\ ~cur_v
                  /\ cls = b.xt_cls
                  /\ child.x0 > SeqMax([k \in 1..Len(b.vstk) |-> b.vstk[k].x0])
               THEN b.vstk[1].y0 - child.y0
               ELSE b.vfix
    IN  [b EXCEPT !.xt_cls = IF Last(b.sstk) = <<>> THEN -1 ELSE b.xt_cls,
                  !.sstk   = SetLast(b.sstk, Last(b.sstk) \o Placeholder(Len(b.var))),
                  !.var    = Append(b.var, b.vstk),
                  !.varl   = Append(b.varl, b.vlstk),
                  !.varf   = Append(b.varf, fix),
                  !.vstk   = <<>>,
                  !.vlstk  = <<>>,
                  !.vfix   = 0]

\* lines 259-269 with the paragraph started on a change of region only
JoinOrStartOnRegion(b, child) ==
    IF b.vstk # <<>> THEN b
    ELSE IF b.xt # NoGlyph /\ GlyphClass(child) = GlyphClass(b.xt)
    THEN IF b.sstk = <<>> THEN b
         ELSE [b EXCEPT !.sstk = SetLast(b.sstk, Last(b.sstk) \o <<" ">>)]
    ELSE [b EXCEPT !.sstk = Append(b.sstk, <<>>),
                   !.pstk = Append(b.pstk,
                               Paragraph(child.y0, child.x0, child.x0, child.x0,
                                         child.y0, child.y1, child.size, FALSE))]

\* lines 259-269 with the new paragraph anchored at the glyph's right edge
JoinOrStartAtRight(b, child) ==
    LET cls == GlyphClass(child)
    IN  IF b.vstk # <<>> THEN b
        ELSE IF cls = b.xt_cls
        THEN IF child.x0 > b.xt.x1 + 1
             THEN [b EXCEPT !.sstk = SetLast(b.sstk, Last(b.sstk) \o <<" ">>)]
             ELSE IF child.x1 < b.xt.x0
             THEN [b EXCEPT !.sstk = SetLast(b.sstk, Last(b.sstk) \o <<" ">>),
                            !.pstk = SetLast(b.pstk, [Last(b.pstk) EXCEPT !.brk = TRUE])]
             ELSE b
        ELSE [b EXCEPT !.sstk = Append(b.sstk, <<>>),
                       !.pstk = Append(b.pstk,
                                   Paragraph(child.y0, child.x1, child.x0, child.x0,
                                             child.y0, child.y1, child.size, FALSE))]

\* lines 259-269: join the current paragraph or start a new one
JoinOrStart(b, child) ==
    LET cls == GlyphClass(child)
    IN  IF b.vstk # <<>> THEN b
        ELSE IF cls = b.xt_cls
        THEN IF child.x0 > b.xt.x1 + 1
             THEN [b EXCEPT !.sstk = SetLast(b.sstk, Last(b.sstk) \o <<" ">>)]
             ELSE IF child.x1 < b.xt.x0
             THEN [b EXCEPT !.sstk = SetLast(b.sstk, Last(b.sstk) \o <<" ">>),
                            !.pstk = SetLast(b.pstk, [Last(b.pstk) EXCEPT !.brk = TRUE])]
             ELSE b
        ELSE [b EXCEPT !.sstk = Append(b.sstk, <<>>),
                       !.pstk = Append(b.pstk,
                                   Paragraph(child.y0, child.x0, child.x0, child.x0,
                                             child.y0, child.y1, child.size, FALSE))]

\* lines 270-277 with the size aligned to larger glyphs only
PushTextLargerOnly(b, child) ==
    LET p     == Last(b.pstk)
        align == child.size > p.size /\ child.text # " "
        p1    == IF align
                 THEN [p EXCEPT !.y = p.y - (child.size - p.size), !.size = child.size]
                 ELSE p
    IN  [b EXCEPT !.pstk = SetLast(b.pstk, p1),
                  !.sstk = SetLast(b.sstk, Last(b.sstk) \o <<child.text>>)]

\* lines 270-277 with the size aligned and the anchor left where it is
PushTextNoShift(b, child) ==
    LET p     == Last(b.pstk)
        align == (child.size > p.size \/ Len(Strip(Last(b.sstk))) = 1)
                     /\ child.text # " "
        p1    == IF align THEN [p EXCEPT !.size = child.size] ELSE p
    IN  [b EXCEPT !.pstk = SetLast(b.pstk, p1),
                  !.sstk = SetLast(b.sstk, Last(b.sstk) \o <<child.text>>)]

\* lines 270-277: push a text glyph, aligning the paragraph's size
PushText(b, child) ==
    LET p     == Last(b.pstk)
        align == (child.size > p.size \/ Len(Strip(Last(b.sstk))) = 1)
                     /\ child.text # " "
        p1    == IF align
                 THEN [p EXCEPT !.y = p.y - (child.size - p.size), !.size = child.size]
                 ELSE p
    IN  [b EXCEPT !.pstk = SetLast(b.pstk, p1),
                  !.sstk = SetLast(b.sstk, Last(b.sstk) \o <<child.text>>)]

\* lines 278-285: push a formula glyph
PushFormula(b, child) ==
    LET cls == GlyphClass(child)
        fix == IF b.vstk = <<>> /\ cls = b.xt_cls /\ child.x0 > b.xt.x0
               THEN child.y0 - b.xt.y0
               ELSE b.vfix
    IN  [b EXCEPT !.vfix = fix, !.vstk = Append(b.vstk, child)]

\* lines 286-293 with the box grown horizontally only
TrackHorizontal(b, child) ==
    LET p == Last(b.pstk)
    IN  [b EXCEPT !.pstk = SetLast(b.pstk,
                              [p EXCEPT !.x0 = Min2(p.x0, child.x0),
                                        !.x1 = Max2(p.x1, child.x1)]),
                  !.xt = child,
                  !.xt_cls = GlyphClass(child)]

\* lines 286-293: grow the paragraph's box, remember the glyph
Track(b, child) ==
    LET p == Last(b.pstk)
    IN  [b EXCEPT !.pstk = SetLast(b.pstk,
                              [p EXCEPT !.x0 = Min2(p.x0, child.x0),
                                        !.x1 = Max2(p.x1, child.x1),
                                        !.y0 = Min2(p.y0, child.y0),
                                        !.y1 = Max2(p.y1, child.y1)]),
                  !.xt = child,
                  !.xt_cls = GlyphClass(child)]

\* lines 207-293 with the join made before the formula is popped
StepCharJoinFirst(b, child) ==
    LET br    == Bridge(b, child, IsFormulaGlyph(b, child))
        cur_v == br[1]
        b1    == [b EXCEPT !.vbkt = br[2]]
        b2    == JoinOrStart(b1, child)
        b3    == IF FormulaEnds(b2, child, cur_v) /\ b2.vstk # <<>>
                 THEN Flush(b2, child, cur_v) ELSE b2
        b4    == IF cur_v THEN PushFormula(b3, child) ELSE PushText(b3, child)
    IN  Track(b4, child)

\* lines 207-293: one LTChar
StepChar(b, child) ==
    LET br    == Bridge(b, child, IsFormulaGlyph(b, child))
        cur_v == br[1]
        b1    == [b EXCEPT !.vbkt = br[2]]
        b2    == IF FormulaEnds(b1, child, cur_v) /\ b1.vstk # <<>>
                 THEN Flush(b1, child, cur_v) ELSE b1
        b3    == JoinOrStart(b2, child)
        b4    == IF cur_v THEN PushFormula(b3, child) ELSE PushText(b3, child)
    IN  Track(b4, child)

\* lines 296-306 with every line given to the open formula run
StepLineAnyRegion(b, child) ==
    IF b.vstk # <<>>
    THEN [b EXCEPT !.vlstk = Append(b.vlstk, child)]
    ELSE [b EXCEPT !.lstk = Append(b.lstk, child)]

\* lines 296-306: one LTLine
StepLine(b, child) ==
    IF b.vstk # <<>> /\ child.cls = b.xt_cls
    THEN [b EXCEPT !.vlstk = Append(b.vlstk, child)]
    ELSE [b EXCEPT !.lstk = Append(b.lstk, child)]

\* lines 316-319: the width of a formula group
FormulaWidth(v) == SeqMax([k \in 1..Len(v) |-> v[k].x1]) - v[1].x0

\* lines 309-319 without the pop of the open formula run
EndPageNoFlush(b) ==
    [b EXCEPT !.vlen = [k \in 1..Len(b.var) |-> FormulaWidth(b.var[k])]]

\* lines 309-319: the end of the event stream
EndPage(b) ==
    LET b1 == IF b.vstk # <<>>
              THEN [b EXCEPT !.sstk = SetLast(b.sstk, Last(b.sstk) \o Placeholder(Len(b.var))),
                             !.var  = Append(b.var, b.vstk),
                             !.varl = Append(b.varl, b.vlstk),
                             !.varf = Append(b.varf, b.vfix)]
              ELSE b
    IN  [b1 EXCEPT !.vlen = [k \in 1..Len(b1.var) |-> FormulaWidth(b1.var[k])]]

StepEvent(b, e) ==
    IF e.kind = "char" THEN StepChar(b, e)
    ELSE IF e.kind = "line" THEN StepLine(b, e)
    ELSE b

\* part A run over a whole event sequence
RECURSIVE RunEvents(_, _)
RunEvents(b, es) == IF es = <<>> THEN b ELSE RunEvents(StepEvent(b, es[1]), Tail(es))

BuildPage(es) == EndPage(RunEvents(InitBuilder, es))

-----------------------------------------------------------------------------
(* Part B: the translation dispatcher (converter.py 325-341)               *)

\* re.match(r"^\{v\d+\}$", s) up to the end of the string
IsPlaceholderText(s) ==
    /\ Len(s) >= 4
    /\ s[1] = "{"
    /\ s[2] = "v"
    /\ Last(s) = "}"
    /\ AllDigits(SubSeq(s, 3, Len(s) - 1))

\* re.match(r"^\{v\d+\}$", s): "$" matches at the end of the string and also
\* just before a line feed that ends the string
MatchesPlaceholderOnly(s) ==
    \/ IsPlaceholderText(s)
    \/ (s # <<>> /\ Last(s) = "\n" /\ IsPlaceholderText(SubSeq(s, 1, Len(s) - 1)))

\* line 327: texts the worker returns without translating
IsBypass(s) == Strip(s) = <<>> \/ MatchesPlaceholderOnly(s)

Upper(c) == IF c = "a" THEN "A" ELSE IF c = "v" THEN "V" ELSE c

\* what translator.translate(s) may return: the upper-cased text, or the same
\* followed by a formula marker the page does not have
Translations(s) ==
    { [k \in 1..Len(s) |-> Upper(s[k])],
      [k \in 1..Len(s) |-> Upper(s[k])] \o <<"{", "v", "9", "}">> }

Future(st, val) == [st |-> st, val |-> val]

Running == { i \in 1..Len(fut) : fut[i].st = "running" }

\* futures whose worker sleeps in wait_fixed(1) before the next attempt
Waiting == { i \in 1..Len(fut) : fut[i].st = "waiting" }

Pending == { i \in 1..Len(fut) : fut[i].st = "pending" }

builderVars == <<evs, sstk, pstk, vbkt, vstk, vlstk, vfix, var, varl, varf, vlen, lstk,
                 xt, xt_cls>>

composerVars == <<id, cs, line_height, ops_list, ops, debug, _x, _y>>

Bump(n) == Min2(n + 1, MaxCalls)

\* lines 338-341: ThreadPoolExecutor(max_workers=self.thread) refuses a pool
\* of no workers; executor.map submits one future per text
StartDispatch ==
    /\ pc = "dispatch"
    /\ IF thread <= 0
       THEN /\ failure' = "ValueError"
            /\ pc' = "raised"
            /\ UNCHANGED fut
       ELSE /\ fut' = [i \in 1..Len(sstk) |-> Future("pending", <<>>)]
            /\ pc' = "collect"
            /\ UNCHANGED failure
    /\ UNCHANGED <<builderVars, composerVars, thread, nxt, news, calls, failed, order,
                   lang_out>>
    /\ UNCHANGED libraryVars

\* a worker thread of the pool takes the oldest queued work item
WorkerTake(i) ==
    /\ pc \in {"collect", "shutdown"}
    /\ i \in Pending
    /\ \A j \in Pending : i <= j
    /\ Cardinality(Running \cup Waiting) < thread
    /\ fut' = [fut EXCEPT ![i].st = "running"]
    /\ UNCHANGED <<pc, builderVars, composerVars, thread, nxt, news, failure, calls,
                   failed, order, lang_out>>
    /\ UNCHANGED libraryVars

\* lines 327-328: the worker returns a blank or marker-only text as it is
WorkerBypass(i) ==
    /\ i \in Running
    /\ IsBypass(sstk[i])
    /\ fut' = [fut EXCEPT ![i] = Future("done", sstk[i])]
    /\ order' = Append(order, i)
    /\ UNCHANGED <<pc, builderVars, composerVars, thread, nxt, news, failure, calls,
                   failed, lang_out>>
    /\ UNCHANGED libraryVars

\* lines 329-331: translate returns
TranslateReturns(i, t) ==
    /\ i \in Running
    /\ ~IsBypass(sstk[i])
    /\ t \in Translations(sstk[i])
    /\ fut' = [fut EXCEPT ![i] = Future("done", t)]
    /\ calls' = [calls EXCEPT ![i] = Bump(@)]
    /\ order' = Append(order, i)
    /\ UNCHANGED <<pc, builderVars, composerVars, thread, nxt, news, failure, failed,
                   lang_out>>
    /\ UNCHANGED libraryVars

\* lines 325, 332-337: translate raises an Exception; the worker logs and
\* re-raises it, and @retry(wait=wait_fixed(1)), which has no stop condition,
\* runs the worker again after a second
TranslateRaises(i) ==
    /\ i \in Running
    /\ ~IsBypass(sstk[i])
    /\ fut' = [fut EXCEPT ![i].st = "waiting"]
    /\ calls' = [calls EXCEPT ![i] = Bump(@)]
    /\ failed' = [failed EXCEPT ![i] = TRUE]
    /\ UNCHANGED <<pc, builderVars, composerVars, thread, nxt, news, failure,
                   order, lang_out>>
    /\ UNCHANGED libraryVars

\* line 325: the wait is over and retry calls the worker again
Retry(i) ==
    /\ i \in Waiting
    /\ fut' = [fut EXCEPT ![i].st = "running"]
    /\ UNCHANGED <<pc, builderVars, composerVars, thread, nxt, news, failure, calls,
                   failed, order, lang_out>>
    /\ UNCHANGED libraryVars

\* lines 325, 332-337: translate raises a BaseException that is no Exception
\* (KeyboardInterrupt, SystemExit); retry does not catch it and the future fails
TranslateAborts(i) ==
    /\ i \in Running
    /\ ~IsBypass(sstk[i])
    /\ fut' = [fut EXCEPT ![i] = Future("failed", <<>>)]
    /\ calls' = [calls EXCEPT ![i] = Bump(@)]
    /\ failed' = [failed EXCEPT ![i] = TRUE]
    /\ order' = Append(order, i)
    /\ UNCHANGED <<pc, builderVars, composerVars, thread, nxt, news, failure, lang_out>>
    /\ UNCHANGED libraryVars

\* executor.map yields the results in the order of submission: the future
\* whose result becomes element k of the list
ResultIndexByCompletion(k) == IF k <= Len(order) THEN order[k] ELSE k

ResultIndex(k) == k

\* line 341: list(...) has taken every result
AnyCollected == nxt > 1 \/ nxt > Len(fut)

AllCollected == nxt > Len(fut)

\* line 341: list(executor.map(...)) takes the next result
Collect ==
    /\ pc = "collect"
    /\ ~AllCollected
    /\ fut[ResultIndex(nxt)].st = "done"
    /\ news' = Append(news, fut[ResultIndex(nxt)].val)
    /\ nxt' = nxt + 1
    /\ UNCHANGED <<pc, builderVars, composerVars, thread, fut, failure, calls, failed,
                   order, lang_out>>
    /\ UNCHANGED libraryVars

\* line 341: the awaited future failed; the result iterator cancels the
\* futures no worker has taken and the exception leaves the with block
CollectFails ==
    /\ pc = "collect"
    /\ ~AllCollected
    /\ fut[ResultIndex(nxt)].st = "failed"
    /\ fut' = [i \in 1..Len(fut) |->
                 IF fut[i].st = "pending" THEN Future("cancelled", <<>>) ELSE fut[i]]
    /\ failure' = "BaseException"
    /\ pc' = "shutdown"
    /\ UNCHANGED <<builderVars, composerVars, thread, nxt, news, calls, failed, order,
                   lang_out>>
    /\ UNCHANGED libraryVars

\* line 341: the list is complete
CollectDone ==
    /\ pc = "collect"
    /\ AllCollected
    /\ pc' = "shutdown"
    /\ UNCHANGED <<builderVars, composerVars, thread, fut, nxt, news, failure, calls,
                   failed, order, lang_out>>
    /\ UNCHANGED libraryVars

\* lines 338-340: leaving the with block joins the pool's workers
Shutdown ==
    /\ pc = "shutdown"
    /\ Running \cup Waiting = {}
    /\ Pending = {}
    /\ pc' = IF failure = "" THEN "compose" ELSE "raised"
    /\ UNCHANGED <<builderVars, composerVars, thread, fut, nxt, news, failure, calls,
                   failed, order, lang_out>>
    /\ UNCHANGED libraryVars

-----------------------------------------------------------------------------
(* Part C: the content stream composer (converter.py 345-505)              *)

\* the font ids of the composer: fcur = None, the default Latin font and
\* self.noto_name
NoFont == "None"

Tiro == "tiro"

NotoName == "noto"

\* self.fontmap["tiro"].to_unichr(ord(ch)) == ch
TiroHas(ch) == ch \in {"a", "A", "v", "V", " ", "{", "}", "(", ")", "0", "1", "9"}

\* self.noto.char_lengths(ch, size)[0] and self.fontmap[font].char_width(ord(ch)) * size
CharAdvance(font, ch, size) == IF font = NotoName THEN size ELSE size \div 2

\* isinstance(self.fontmap[font], PDFCIDFont)
IsCIDFont(font) == font = MathFont

\* unicodedata.category(c) in Lm, Mn, Sk
IsModifierChar(c) == c \in {"^"}

\* lines 345-351: the encoded payload: hex digits per code, and the codes
raw_string(fcur, cstk) ==
    IF fcur = NotoName
    THEN [digits |-> 4, codes |-> [k \in 1..Len(cstk) |-> <<"glyph", cstk[k]>>]]
    ELSE IF IsCIDFont(fcur)
    THEN [digits |-> 4, codes |-> [k \in 1..Len(cstk) |-> <<"ord", cstk[k]>>]]
    ELSE [digits |-> 2, codes |-> [k \in 1..Len(cstk) |-> <<"ord", cstk[k]>>]]

\* lines 354-357: LANG_LINEHEIGHT_MAP, in twentieths; lo marks a value that
\* binary floating point holds just below the twentieth
LineHeight(n) == [n |-> n, lo |-> FALSE]

Langs == {"ja", "ko", "en", "ar", "ru", "fr"}

DefaultLineHeight(lang) ==
    CASE lang = "ja" -> LineHeight(22)
      [] lang = "ko" -> LineHeight(28)
      [] lang = "en" -> LineHeight(24)
      [] lang = "ar" -> LineHeight(20)
      [] lang \in {"ru", "uk", "ta"} -> LineHeight(16)
      [] OTHER -> LineHeight(22)

\* line 492: line_height -= 0.05 in IEEE double arithmetic: 1.4 - 0.05 and
\* 1.15 - 0.05 round below the twentieth and every later value stays below
Decrement(lh) == [n |-> lh.n - 1, lo |-> lh.lo \/ lh.n \in {28, 23}]

\* line 491: line_height >= 1
AtLeastOne(lh) == lh.n > 20 \/ (lh.n = 20 /\ ~lh.lo)

\* lines 489-492: the compression loop
RECURSIVE Compress(_, _, _, _)
Compress(lh, lidx, size, height) ==
    IF (lidx + 1) * size * lh.n > 20 * height /\ AtLeastOne(lh)
    THEN Compress(Decrement(lh), lidx, size, height)
    ELSE lh

RECURSIVE SkipSpaces(_, _)
SkipSpaces(s, k) == IF k <= Len(s) /\ IsSpace(s[k]) THEN SkipSpaces(s, k + 1) ELSE k

RECURSIVE SkipDigitsSpaces(_, _)
SkipDigitsSpaces(s, k) ==
    IF k <= Len(s) /\ (IsDigit(s[k]) \/ IsSpace(s[k]))
    THEN SkipDigitsSpaces(s, k + 1) ELSE k

NoMatch == [ok |-> FALSE, len |-> 0, group |-> <<>>]

\* lines 386-388: re.match(r"\{\s*v([\d\s]+)\}", s, re.IGNORECASE)
MatchMarker(s) ==
    IF s = <<>> \/ s[1] # "{" THEN NoMatch
    ELSE LET k1 == SkipSpaces(s, 2)
         IN  IF k1 > Len(s) \/ s[k1] \notin {"v", "V"} THEN NoMatch
             ELSE LET k2 == SkipDigitsSpaces(s, k1 + 1)
                  IN  IF k2 = k1 + 1 \/ k2 > Len(s) \/ s[k2] # "}" THEN NoMatch
                      ELSE [ok |-> TRUE, len |-> k2, group |-> SubSeq(s, k1 + 1, k2 - 1)]

RECURSIVE RemoveBlanks(_)
RemoveBlanks(s) ==
    IF s = <<>> THEN <<>>
    ELSE IF s[1] = " " THEN RemoveBlanks(Tail(s))
    ELSE <<s[1]>> \o RemoveBlanks(Tail(s))

\* line 393: int(group.replace(" ", "")): -1 when int raises ValueError
MarkerIndex(group) ==
    LET t == Strip(RemoveBlanks(group))
    IN  IF t # <<>> /\ AllDigits(t) THEN CharsToInt(t) ELSE -1

\* lines 392-396: the marker names a formula group (vlen[vid] does not raise)
Resolves(group, table) == MarkerIndex(group) >= 0 /\ MarkerIndex(group) < Len(table)

TextRecord(font, size, x, dy, rtxt, lidx) ==
    [type |-> "text", font |-> font, size |-> size, x |-> x, dy |-> dy,
     rtxt |-> rtxt, lidx |-> lidx]

LineRecord(x, dy, linewidth, xlen, ylen, lidx) ==
    [type |-> "line", x |-> x, dy |-> dy, linewidth |-> linewidth,
     xlen |-> xlen, ylen |-> ylen, lidx |-> lidx]

\* lines 368-383: the locals at the start of a paragraph's walk
InitWalk(p) ==
    [x |-> p.x, cstk |-> <<>>, fcur |-> NoFont, fcur_ |-> NoFont, lidx |-> 0,
     tx |-> p.x, ptr |-> 1, ops_vals |-> <<>>]

\* lines 419-429: output the buffered text run
FlushRun(c, size) ==
    IF c.cstk # <<>>
    THEN [c EXCEPT !.ops_vals = Append(@, TextRecord(c.fcur, size, c.tx, 0,
                                                     raw_string(c.fcur, c.cstk), c.lidx)),
                   !.cstk = <<>>]
    ELSE c

\* line 452: strokes at least this wide are dropped
DecorativeWidth == 5

\* lines 433-461 with the vertical correction applied at every position
FormulaRecordsAlwaysFixed(c, v, tvar, tvarl, tvarf) ==
    LET fix == tvarf[v]
        g1  == tvar[v][1]
        chs == [k \in 1..Len(tvar[v]) |->
                  TextRecord(tvar[v][k].font, tvar[v][k].size,
                             c.x + tvar[v][k].x0 - g1.x0,
                             fix + tvar[v][k].y0 - g1.y0,
                             raw_string(tvar[v][k].font, <<tvar[v][k].cid>>), c.lidx)]
        ls  == SelectSeq(tvarl[v], LAMBDA l : l.linewidth < DecorativeWidth)
        lrs == [k \in 1..Len(ls) |->
                  LineRecord(ls[k].x0 + c.x - g1.x0, ls[k].y0 + fix - g1.y0,
                             ls[k].linewidth, ls[k].x1 - ls[k].x0, ls[k].y1 - ls[k].y0,
                             c.lidx)]
    IN  chs \o lrs

\* lines 433-461: the records of formula group v (1-based) at cursor c.x
FormulaRecords(c, v, tvar, tvarl, tvarf) ==
    LET fix == IF c.fcur # NoFont THEN tvarf[v] ELSE 0
        g1  == tvar[v][1]
        chs == [k \in 1..Len(tvar[v]) |->
                  TextRecord(tvar[v][k].font, tvar[v][k].size,
                             c.x + tvar[v][k].x0 - g1.x0,
                             fix + tvar[v][k].y0 - g1.y0,
                             raw_string(tvar[v][k].font, <<tvar[v][k].cid>>), c.lidx)]
        ls  == SelectSeq(tvarl[v], LAMBDA l : l.linewidth < DecorativeWidth)
        lrs == [k \in 1..Len(ls) |->
                  LineRecord(ls[k].x0 + c.x - g1.x0, ls[k].y0 + fix - g1.y0,
                             ls[k].linewidth, ls[k].x1 - ls[k].x0, ls[k].y1 - ls[k].y0,
                             c.lidx)]
    IN  chs \o lrs

\* lines 390-396, the except branch: a marker that names no formula group
SkipMarkerFlushing(c, m, size) == [FlushRun(c, size) EXCEPT !.ptr = c.ptr + m.len]

SkipMarker(c, m, size) == [c EXCEPT !.ptr = c.ptr + m.len]

\* lines 414-432 with the wrap made for every paragraph
FlushAndWrapAlways(c, p, font, isFormula, adv) ==
    LET over == 10 * (c.x + adv) > 10 * p.x1 + p.size
        c1   == IF font # c.fcur \/ isFormula \/ over THEN FlushRun(c, p.size) ELSE c
    IN  IF over THEN [c1 EXCEPT !.x = p.x0, !.lidx = c1.lidx + 1] ELSE c1

\* lines 414-432 with the run kept in the buffer at the right boundary
FlushAndWrapLate(c, p, font, isFormula, adv) ==
    LET over == 10 * (c.x + adv) > 10 * p.x1 + p.size
        c1   == IF font # c.fcur \/ isFormula THEN FlushRun(c, p.size) ELSE c
    IN  IF p.brk /\ over THEN [c1 EXCEPT !.x = p.x0, !.lidx = c1.lidx + 1] ELSE c1

\* lines 414-432: output the run when the font changes, a formula comes or the
\* right boundary is reached; wrap when the paragraph has a line break
FlushAndWrap(c, p, font, isFormula, adv) ==
    LET over == 10 * (c.x + adv) > 10 * p.x1 + p.size
        c1   == IF font # c.fcur \/ isFormula \/ over THEN FlushRun(c, p.size) ELSE c
    IN  IF p.brk /\ over THEN [c1 EXCEPT !.x = p.x0, !.lidx = c1.lidx + 1] ELSE c1

\* lines 390-398, 414-461, 471-473: a marker that names formula group v (1-based)
WalkFormula(c, m, v, p, tvar, tvarl, tvarf, tvlen) ==
    LET adv  == tvlen[v]
        last == Last(tvar[v])
        mod  == IF last.text # "" /\ IsModifierChar(last.text) THEN last.width ELSE 0
        c1   == FlushAndWrap([c EXCEPT !.ptr = c.ptr + m.len], p, c.fcur_, TRUE, adv)
        c2   == [c1 EXCEPT !.ops_vals = @ \o FormulaRecords(c1, v, tvar, tvarl, tvarf)]
    IN  [c2 EXCEPT !.fcur = c.fcur_, !.x = c2.x + (adv - mod)]

\* lines 399-432, 462-473: an ordinary character
WalkChar(c, ch, p) ==
    LET font == IF TiroHas(ch) THEN Tiro ELSE NotoName
        adv  == CharAdvance(font, ch, p.size)
        c1   == FlushAndWrap([c EXCEPT !.ptr = c.ptr + 1, !.fcur_ = font], p, font, FALSE, adv)
        drop == c1.cstk = <<>> /\ c1.x = p.x0 /\ ch = " "
        c2   == IF c1.cstk = <<>> THEN [c1 EXCEPT !.tx = c1.x] ELSE c1
        c3   == IF drop THEN c2 ELSE [c2 EXCEPT !.cstk = Append(@, ch)]
    IN  [c3 EXCEPT !.fcur = font, !.x = c3.x + (IF drop THEN 0 ELSE adv)]

\* lines 385-476: one iteration of the walk over the translated text new
WalkStep(c, new, p, tvar, tvarl, tvarf, tvlen) ==
    LET m == MatchMarker(SubSeq(new, c.ptr, Len(new)))
    IN  IF m.ok
        THEN IF Resolves(m.group, tvlen)
             THEN WalkFormula(c, m, MarkerIndex(m.group) + 1, p, tvar, tvarl, tvarf, tvlen)
             ELSE SkipMarker(c, m, p.size)
        ELSE WalkChar(c, new[c.ptr], p)

\* lines 494-498: an emission record placed with the paragraph's line height;
\* y is kept in twentieths
PlaceRecord(r, y, size, lh) ==
    [r EXCEPT !.dy = 20 * (r.dy + y) - r.lidx * size * lh.n]

\* gen_op_txt and gen_op_line with the line run left inside the text object
gen_opInside(r) ==
    IF r.type = "text"
    THEN << [op |-> "Tf Tm TJ", font |-> r.font, size |-> r.size, x |-> r.x,
             y20 |-> r.dy, rtxt |-> r.rtxt] >>
    ELSE << [op |-> "q cm d J w m l S Q", x |-> r.x, y20 |-> r.dy,
             linewidth |-> r.linewidth, xlen |-> r.xlen, ylen |-> r.ylen] >>

\* gen_op_txt (361-362) and gen_op_line (364-365) as operator tokens
gen_op(r) ==
    IF r.type = "text"
    THEN << [op |-> "Tf Tm TJ", font |-> r.font, size |-> r.size, x |-> r.x,
             y20 |-> r.dy, rtxt |-> r.rtxt] >>
    ELSE << [op |-> "ET"],
            [op |-> "q cm d J w m l S Q", x |-> r.x, y20 |-> r.dy,
             linewidth |-> r.linewidth, xlen |-> r.xlen, ylen |-> r.ylen],
            [op |-> "BT"] >>

\* lines 496, 498, 502 with the operators put in front of the list
PrependOps(list, rec) == Concat(rec) \o list

\* lines 496, 498, 502: ops_list.append, for a sequence of operators
AppendOps(list, rec) == list \o Concat(rec)

\* lines 367-383: start the walk of paragraph id
BeginParagraph ==
    /\ pc = "compose"
    /\ id <= Len(news)
    /\ cs' = InitWalk(pstk[id])
    /\ pc' = "walk"
    /\ UNCHANGED <<builderVars, thread, fut, nxt, news, failure, calls, failed, order,
                   lang_out, id, line_height, ops_list, ops, debug, _x, _y>>
    /\ UNCHANGED libraryVars

\* line 449: the stroke width of a trace line, 0.1 in the code: thinner than
\* every stroke of a page, kept as 0 in whole units
TraceWidth == 0

\* lines 448-450, 474-476: the trace lines one iteration of the while loop adds
\* to the global line list under debug logging, drawn from (x_, y_): one to
\* each glyph of an inserted formula, then one to the cursor after the advance;
\* none for a marker that names no formula group (the loop continues first)
DebugTrace(c, new, p, tvar, tvarl, tvarf, tvlen, x_, y_) ==
    LET m   == MatchMarker(SubSeq(new, c.ptr, Len(new)))
        d   == WalkStep(c, new, p, tvar, tvarl, tvarf, tvlen)
        v   == MarkerIndex(m.group) + 1
        c1  == FlushAndWrap([c EXCEPT !.ptr = c.ptr + m.len], p, c.fcur_, TRUE, tvlen[v])
        fix == IF c.fcur # NoFont THEN tvarf[v] ELSE 0
        pts == IF m.ok
               THEN [k \in 1..Len(tvar[v]) |->
                       <<c1.x + tvar[v][k].x0 - tvar[v][1].x0,
                         fix + p.y + tvar[v][k].y0 - tvar[v][1].y0>>]
               ELSE <<>>
        all == <<<<x_, y_>>>> \o pts \o <<<<d.x, p.y>>>>
    IN  IF m.ok /\ ~Resolves(m.group, tvlen) THEN <<>>
        ELSE [k \in 1..(Len(all) - 1) |->
                Line(0, all[k][1], all[k][2], all[k + 1][1] - all[k][1],
                     all[k + 1][2] - all[k][2], TraceWidth)]

\* lines 385-476: one iteration of the while loop
Walk ==
    /\ pc = "walk"
    /\ cs.ptr <= Len(news[id])
    /\ cs' = WalkStep(cs, news[id], pstk[id], var, varl, varf, vlen)
    /\ IF debug
       THEN LET t == DebugTrace(cs, news[id], pstk[id], var, varl, varf, vlen, _x, _y)
            IN  /\ lstk' = lstk \o t
                /\ _x' = IF t = <<>> THEN _x ELSE Last(t).x1
                /\ _y' = IF t = <<>> THEN _y ELSE Last(t).y1
       ELSE UNCHANGED <<lstk, _x, _y>>
    /\ UNCHANGED <<pc, evs, sstk, pstk, vbkt, vstk, vlstk, vfix, var, varl, varf, vlen,
                   xt, xt_cls, thread, fut, nxt, news, failure, calls, failed,
                   order, lang_out, id, line_height, ops_list, ops, debug>>
    /\ UNCHANGED libraryVars

\* lines 477-498: the last run, the line height and the paragraph's operators
EndParagraph ==
    /\ pc = "walk"
    /\ cs.ptr > Len(news[id])
    /\ LET p   == pstk[id]
           c   == FlushRun(cs, p.size)
           lh  == Compress(DefaultLineHeight(lang_out), c.lidx, p.size, p.y1 - p.y0)
           rec == [k \in 1..Len(c.ops_vals) |-> gen_op(PlaceRecord(c.ops_vals[k], p.y, p.size, lh))]
       IN  /\ cs' = c
           /\ line_height' = lh
           /\ ops_list' = AppendOps(ops_list, rec)
    /\ id' = id + 1
    /\ pc' = "compose"
    /\ UNCHANGED <<builderVars, thread, fut, nxt, news, failure, calls, failed, order,
                   lang_out, ops, debug, _x, _y>>
    /\ UNCHANGED libraryVars

\* lines 500-505: the page's own lines and the text object around everything
Serialize ==
    /\ pc = "compose"
    /\ id > Len(news)
    /\ LET ls  == SelectSeq(lstk, LAMBDA l : l.linewidth < DecorativeWidth)
           rec == [k \in 1..Len(ls) |->
                     gen_op(LineRecord(ls[k].x0, 20 * ls[k].y0, ls[k].linewidth,
                                       ls[k].x1 - ls[k].x0, ls[k].y1 - ls[k].y0, 0))]
       IN  /\ ops_list' = AppendOps(ops_list, rec)
           /\ ops' = <<[op |-> "BT"]>> \o ops_list' \o <<[op |-> "ET"]>>
    /\ pc' = "returned"
    /\ UNCHANGED <<builderVars, thread, fut, nxt, news, failure, calls, failed, order,
                   lang_out, id, cs, line_height, debug, _x, _y>>
    /\ UNCHANGED libraryVars

-----------------------------------------------------------------------------
(* Part A as actions                                                       *)

Builder ==
    [sstk |-> sstk, pstk |-> pstk, vbkt |-> vbkt, vstk |-> vstk, vlstk |-> vlstk,
     vfix |-> vfix, var |-> var, varl |-> varl, varf |-> varf, vlen |-> vlen,
     lstk |-> lstk, xt |-> xt, xt_cls |-> xt_cls]

\* in an initial predicate
IsBuilder(b) ==
    /\ sstk = b.sstk /\ pstk = b.pstk /\ vbkt = b.vbkt /\ vstk = b.vstk
    /\ vlstk = b.vlstk /\ vfix = b.vfix /\ var = b.var /\ varl = b.varl
    /\ varf = b.varf /\ vlen = b.vlen /\ lstk = b.lstk /\ xt = b.xt
    /\ xt_cls = b.xt_cls

\* in an action
BecomesBuilder(b) ==
    /\ sstk' = b.sstk /\ pstk' = b.pstk /\ vbkt' = b.vbkt /\ vstk' = b.vstk
    /\ vlstk' = b.vlstk /\ vfix' = b.vfix /\ var' = b.var /\ varl' = b.varl
    /\ varf' = b.varf /\ vlen' = b.vlen /\ lstk' = b.lstk /\ xt' = b.xt
    /\ xt_cls' = b.xt_cls

dispatcherVars == <<thread, fut, nxt, news, failure, calls, failed, order>>

\* lines 206-293: the loop body for an LTChar
ReceiveChar(child) ==
    /\ pc = "build"
    /\ Len(evs) < MaxEvents
    /\ BecomesBuilder(StepChar(Builder, child))
    /\ evs' = Append(evs, child)
    /\ UNCHANGED <<pc, dispatcherVars, lang_out, composerVars>>
    /\ UNCHANGED libraryVars

\* lines 296-306: the loop body for an LTLine
ReceiveLine(child) ==
    /\ pc = "build"
    /\ Len(evs) < MaxEvents
    /\ BecomesBuilder(StepLine(Builder, child))
    /\ evs' = Append(evs, child)
    /\ UNCHANGED <<pc, dispatcherVars, lang_out, composerVars>>
    /\ UNCHANGED libraryVars

\* lines 294-295: an LTFigure is passed over
ReceiveFigure ==
    /\ pc = "build"
    /\ Len(evs) < MaxEvents
    /\ evs' = Append(evs, Figure)
    /\ UNCHANGED <<pc, sstk, pstk, vbkt, vstk, vlstk, vfix, var, varl, varf, vlen, lstk,
                   xt, xt_cls, dispatcherVars, lang_out, composerVars>>
    /\ UNCHANGED libraryVars

\* lines 309-319: the event stream is exhausted
EndOfPage ==
    /\ pc = "build"
    /\ BecomesBuilder(EndPage(Builder))
    /\ pc' = "dispatch"
    /\ calls' = [i \in 1..Len(sstk') |-> 0]
    /\ failed' = [i \in 1..Len(sstk') |-> FALSE]
    /\ UNCHANGED <<evs, thread, fut, nxt, news, failure, order, lang_out, composerVars>>
    /\ UNCHANGED libraryVars

-----------------------------------------------------------------------------
(* Part D: BaseTranslator and its cache (translator.py 26-99)              *)

\* texts handed to translate
Texts == {"a", "b"}

\* cache-impact parameters a caller may add
ParamPairs == {<<"test", 1>>, <<"test", 2>>, <<"test2", 1>>}

None == "None"

\* TranslationCache.add_params(k, v): the parameter set with k bound to v
CacheAddParams(ps, k, v) == {q \in ps : q[1] # k} \cup {<<k, v>>}

\* TranslationCache.get(text): the translation stored for the text under the
\* current parameters, or None
CacheGet(c, ps, text) ==
    IF \E r \in c : r.params = ps /\ r.text = text
    THEN (CHOOSE r \in c : r.params = ps /\ r.text = text).translation
    ELSE None

\* TranslationCache.set(text, translation): the row for the text under the
\* current parameters is replaced
CacheSet(c, ps, text, translation) ==
    {r \in c : ~(r.params = ps /\ r.text = text)}
        \cup {[params |-> ps, text |-> text, translation |-> translation]}

\* only the instance's ignore_cache is looked at
UsesCacheInstanceOnly(self_ignore_cache, arg_ignore_cache) == ~self_ignore_cache

\* the cache is never consulted
UsesCacheNever(self_ignore_cache, arg_ignore_cache) == FALSE

\* line 84: the cache is consulted
UsesCache(self_ignore_cache, arg_ignore_cache) ==
    ~(self_ignore_cache \/ arg_ignore_cache)

\* line 90: self.cache.set(text, translation)
StoreTranslation(c, ps, text, translation) == CacheSet(c, ps, text, translation)

\* the parameter is not handed to the cache
AddParameterDropped(ps, k, v) == ps

\* line 74: self.cache.add_params(k, v)
AddParameter(ps, k, v) == CacheAddParams(ps, k, v)

\* a call of translate as the history keeps it
CallRecord(text, arg, ps, called, raised, value) ==
    [op |-> "translate", text |-> text, ignore_cache |-> arg,
     self_ignore_cache |-> ignore_cache, params |-> ps,
     called |-> called, raised |-> raised, value |-> value]

\* the callers of ConfigManager
Threads == 1..MaxThread

\* a thread that runs no call
NoCall ==
    [op |-> "", line |-> 0, service |-> "", config |-> {}, first |-> FALSE,
     instance |-> 0, key |-> "", value |-> None]

\* a do_translate call that has not ended
StillRunning == [kind |-> "", code |-> ""]

\* BaseTranslator.__init__ with ignore_cache False, an empty cache
IdleLibrary ==
    /\ ignore_cache = FALSE /\ params = {} /\ cache = {} /\ self_n = 0 /\ log = <<>>
    /\ attempt = <<>> /\ result = StillRunning
    /\ _instance = 0 /\ _lock = 0 /\ _config_data = <<>> /\ config_json = <<>>
    /\ made = <<>>
    /\ at = [t \in Threads |-> NoCall] /\ reply = [t \in Threads |-> None]

\* lines 84-87: translate answered from the cache
TranslateFromCache(text, arg) ==
    /\ Len(log) < MaxOps
    /\ UsesCache(ignore_cache, arg)
    /\ CacheGet(cache, params, text) # None
    /\ log' = Append(log, CallRecord(text, arg, params, FALSE, FALSE,
                                     CacheGet(cache, params, text)))
    /\ UNCHANGED <<ignore_cache, params, cache, self_n>>
    /\ UNCHANGED <<converterVars, bedrockVars, configVars>>

\* the cache is not consulted, or holds nothing for the text
MustTranslate(text, arg) ==
    UsesCache(ignore_cache, arg) => CacheGet(cache, params, text) = None

\* lines 89-91: do_translate returns (AutoIncreaseTranslator: str(n))
TranslateFresh(text, arg) ==
    /\ Len(log) < MaxOps
    /\ MustTranslate(text, arg)
    /\ self_n' = self_n + 1
    /\ cache' = StoreTranslation(cache, params, text, ToString(self_n'))
    /\ log' = Append(log, CallRecord(text, arg, params, TRUE, FALSE,
                                     ToString(self_n')))
    /\ UNCHANGED <<ignore_cache, params>>
    /\ UNCHANGED <<converterVars, bedrockVars, configVars>>

\* the failure is stored as if it were a translation
TranslateThrowsStored(text, arg) ==
    /\ Len(log) < MaxOps
    /\ MustTranslate(text, arg)
    /\ self_n' = self_n + 1
    /\ cache' = StoreTranslation(cache, params, text, "")
    /\ log' = Append(log, CallRecord(text, arg, params, TRUE, TRUE, None))
    /\ UNCHANGED <<ignore_cache, params>>
    /\ UNCHANGED <<converterVars, bedrockVars, configVars>>

\* line 89: do_translate raises (BaseTranslator: NotImplementedError)
TranslateThrows(text, arg) ==
    /\ Len(log) < MaxOps
    /\ MustTranslate(text, arg)
    /\ self_n' = self_n + 1
    /\ log' = Append(log, CallRecord(text, arg, params, TRUE, TRUE, None))
    /\ UNCHANGED <<ignore_cache, params, cache>>
    /\ UNCHANGED <<converterVars, bedrockVars, configVars>>

\* translator.ignore_cache = b
SetIgnoreCache(b) ==
    /\ Len(log) < MaxOps
    /\ b # ignore_cache
    /\ ignore_cache' = b
    /\ log' = Append(log, [op |-> "ignore_cache", value |-> b])
    /\ UNCHANGED <<params, cache, self_n>>
    /\ UNCHANGED <<converterVars, bedrockVars, configVars>>

\* lines 68-74: add_cache_impact_parameters(k, v)
AddCacheImpactParameters(k, v) ==
    /\ Len(log) < MaxOps
    /\ params' = AddParameter(params, k, v)
    /\ log' = Append(log, [op |-> "add_params", key |-> k, value |-> v,
                           new |-> (\A q \in params : q[1] # k)])
    /\ UNCHANGED <<ignore_cache, cache, self_n>>
    /\ UNCHANGED <<converterVars, bedrockVars, configVars>>

-----------------------------------------------------------------------------
(* Specifications                                                          *)

IdleDispatcher ==
    /\ fut = <<>> /\ nxt = 1 /\ news = <<>> /\ failure = "" /\ order = <<>>

IdleComposer ==
    /\ id = 1 /\ cs = InitWalk(Paragraph(0, 0, 0, 0, 0, 0, 0, FALSE))
    /\ line_height = LineHeight(0) /\ ops_list = <<>> /\ ops = <<>>
    /\ _x = 0 /\ _y = 0

\* receive_layout is entered with an empty page state
InitBuild ==
    /\ pc = "build"
    /\ evs = <<>>
    /\ IsBuilder(InitBuilder)
    /\ thread = 1
    /\ calls = <<>>
    /\ failed = <<>>
    /\ lang_out = "en"
    /\ IdleDispatcher
    /\ IdleComposer
    /\ debug = FALSE
    /\ IdleLibrary

\* longer pages read to their end: a formula, an opening parenthesis, a text
\* glyph and a closing parenthesis; the same with the parentheses in the
\* formula font
PageBridged ==
    << Glyph("x", MathFont, 1, 2, 52, 10), Glyph("(", TextFont, 1, 4, 50, 10),
       Glyph("a", TextFont, 1, 6, 50, 10), Glyph(")", TextFont, 1, 8, 50, 10) >>

PageMathBrackets ==
    << Glyph("x", MathFont, 1, 2, 52, 10), Glyph("(", MathFont, 1, 4, 50, 10),
       Glyph("x", MathFont, 1, 6, 52, 10), Glyph(")", MathFont, 1, 8, 50, 10),
       Glyph(")", TextFont, 1, 10, 50, 10) >>

LongPages == {PageBridged, PageMathBrackets}

\* lines 206-293: the next LTChar of one of the longer pages
ReceiveNextOf(page) ==
    /\ pc = "build"
    /\ Len(evs) < Len(page)
    /\ SubSeq(page, 1, Len(evs)) = evs
    /\ BecomesBuilder(StepChar(Builder, page[Len(evs) + 1]))
    /\ evs' = Append(evs, page[Len(evs) + 1])
    /\ UNCHANGED <<pc, dispatcherVars, lang_out, composerVars>>
    /\ UNCHANGED libraryVars

NextBuild ==
    \/ \E g \in Glyphs : ReceiveChar(g)
    \/ \E l \in Lines : ReceiveLine(l)
    \/ ReceiveFigure
    \/ \E page \in LongPages : ReceiveNextOf(page)
    \/ EndOfPage

SpecBuild == InitBuild /\ [][NextBuild]_vars

\* pages handed to the dispatcher: a region-0 formula followed by text; text
\* around an inline formula with a rule; a wrapped paragraph and a second
\* region; a formula on the second line of a paragraph; glyphs that spell a
\* marker followed by a line feed; a lone space; a page without glyphs
PageFormulaFirst ==
    << Glyph("x", MathFont, 0, 2, 52, 10), Glyph("a", TextFont, 1, 20, 50, 10) >>

PageInline ==
    << Glyph("a", TextFont, 1, 0, 50, 10), Glyph("a", TextFont, 1, 2, 50, 10),
       Glyph("x", MathFont, 1, 4, 52, 10), Line(1, 4, 51, 2, 0, 1),
       Glyph("a", TextFont, 1, 6, 50, 10), Line(1, 0, 40, 30, 0, 1) >>

PageWrapped ==
    << Glyph("a", TextFont, 1, 20, 50, 10), Glyph("a", TextFont, 1, 0, 40, 10),
       Glyph("a", TextFont, 2, 0, 20, 10), Line(2, 0, 10, 30, 0, 1) >>

PageWrappedFormula ==
    << Glyph("a", TextFont, 1, 18, 50, 10), Glyph("a", TextFont, 1, 20, 50, 10),
       Glyph("x", MathFont, 1, 0, 42, 10) >>

\* strokes of width 4, 5 and 6 inside a formula and on the page
PageRules ==
    << Glyph("a", TextFont, 1, 0, 50, 10), Glyph("x", MathFont, 1, 2, 52, 10),
       Line(1, 2, 51, 2, 0, 4), Line(1, 2, 51, 2, 0, 5), Line(1, 2, 51, 2, 0, 6),
       Glyph("a", TextFont, 1, 4, 50, 10),
       Line(1, 0, 40, 30, 0, 4), Line(1, 0, 40, 30, 0, 5), Line(1, 0, 40, 30, 0, 6) >>

PageLiteral ==
    << Glyph("{", TextFont, 1, 0, 50, 10), Glyph("v", TextFont, 1, 2, 50, 10),
       Glyph("1", TextFont, 1, 4, 50, 10), Glyph("}", TextFont, 1, 6, 50, 10),
       Glyph("\n", TextFont, 1, 8, 50, 10) >>

PageBlank == << Glyph(" ", TextFont, 1, 0, 50, 10) >>

PageEmpty == << >>

DispatchPages ==
    {PageFormulaFirst, PageInline, PageWrapped, PageLiteral, PageBlank, PageEmpty}

DispatchLangs == {"en", "ru"}

\* part A has run over the page; the pool is about to be made
InitDispatch ==
    /\ pc = "dispatch"
    /\ evs \in DispatchPages
    /\ IsBuilder(BuildPage(evs))
    /\ thread \in 0..MaxThread
    /\ calls = [i \in 1..Len(sstk) |-> 0]
    /\ failed = [i \in 1..Len(sstk) |-> FALSE]
    /\ lang_out \in DispatchLangs
    /\ IdleDispatcher
    /\ IdleComposer
    /\ debug = FALSE
    /\ IdleLibrary

NextDispatch ==
    \/ StartDispatch
    \/ \E i \in 1..Len(fut) : WorkerTake(i)
    \/ \E i \in 1..Len(fut) : WorkerBypass(i)
    \/ \E i \in 1..Len(fut) : \E t \in Translations(sstk[i]) : TranslateReturns(i, t)
    \/ \E i \in 1..Len(fut) : TranslateRaises(i)
    \/ \E i \in 1..Len(fut) : Retry(i)
    \/ \E i \in 1..Len(fut) : TranslateAborts(i)
    \/ Collect
    \/ CollectFails
    \/ CollectDone
    \/ Shutdown
    \/ BeginParagraph
    \/ Walk
    \/ EndParagraph
    \/ Serialize

SpecDispatch == InitDispatch /\ [][NextDispatch]_vars

\* the threads of the pool and the main thread keep running
FairDispatch == InitDispatch /\ [][NextDispatch]_vars /\ WF_vars(NextDispatch)

\* pages handed to the composer, and what the translator made of each text
ComposePages ==
    {PageFormulaFirst, PageInline, PageWrapped, PageWrappedFormula, PageRules}

TranslatedTexts(s) ==
    IF IsBypass(s) THEN {s}
    ELSE Translations(s)
         \cup { <<"A", "{", "v", "0", "}">>,
                <<"A", "{", "v", " ", "}", "A">>,
                <<"{", " ", "V", "0", " ", "}", "b", "A", " ", "A">> }

\* parts A and B have run; every future is done and its result collected
InitCompose ==
    /\ pc = "compose"
    /\ evs \in ComposePages
    /\ IsBuilder(BuildPage(evs))
    /\ thread = 1
    /\ lang_out \in Langs
    /\ news \in [1..Len(sstk) -> UNION { TranslatedTexts(sstk[i]) : i \in 1..Len(sstk) }]
    /\ \A i \in 1..Len(sstk) : news[i] \in TranslatedTexts(sstk[i])
    /\ fut = [i \in 1..Len(sstk) |-> Future("done", news[i])]
    /\ nxt = Len(sstk) + 1
    /\ failure = ""
    /\ calls = [i \in 1..Len(sstk) |-> IF IsBypass(sstk[i]) THEN 0 ELSE 1]
    /\ failed = [i \in 1..Len(sstk) |-> FALSE]
    /\ order = [i \in 1..Len(sstk) |-> i]
    /\ IdleComposer
    /\ debug \in BOOLEAN
    /\ IdleLibrary

NextCompose ==
    \/ BeginParagraph
    \/ Walk
    \/ EndParagraph
    \/ Serialize

SpecCompose == InitCompose /\ [][NextCompose]_vars

-----------------------------------------------------------------------------
(* Properties                                                              *)

Composing == pc \in {"compose", "walk", "returned"}

\* C1: whatever the order in which the workers complete, the list the
\* dispatcher hands to the composer has one element per paragraph text, and
\* element i is what worker i computed for text i: the text itself when it is
\* bypassed, a translation of it otherwise.
C1_OrderPreserved ==
    Composing =>
        /\ Len(news) = Len(sstk)
        /\ \A i \in 1..Len(sstk) :
              /\ news[i] = fut[i].val
              /\ IF IsBypass(sstk[i]) THEN news[i] = sstk[i]
                 ELSE news[i] \in Translations(sstk[i])

\* a page of two texts returned although the second worker completed first
C1_Witness ==
    pc = "returned" /\ Len(news) = 2 /\ order = <<2, 1>> /\ news[1] # news[2]

\* C2 (as claimed): once a translate call has failed for some paragraph,
\* receive_layout does not go on to compose and return an operator stream.
C2_FailureIsFatal == (\E i \in 1..Len(failed) : failed[i]) => ~Composing

\* C3 (as claimed): translate is called at most once per paragraph text.
C3_AtMostOneCall == \A i \in 1..Len(calls) : calls[i] <= 1

\* C4 (as claimed): receive_layout eventually returns or raises.
C4_Terminates == <>(pc \in {"returned", "raised"})

\* a text that is blank or exactly one marker {v<digits>}
IsBlankOrMarker(s) == Strip(s) = <<>> \/ IsPlaceholderText(s)

\* C5 (as claimed): when dispatch has completed, exactly the texts that are
\* blank or one marker {v<digits>} caused no translate call, and those are
\* returned unchanged.
C5_BypassExactly ==
    Composing =>
        \A i \in 1..Len(sstk) :
            /\ (calls[i] = 0) <=> IsBlankOrMarker(sstk[i])
            /\ IsBlankOrMarker(sstk[i]) => news[i] = sstk[i]

DispatchComplete ==
    /\ pc # "dispatch"
    /\ Len(fut) = Len(sstk)
    /\ \A i \in 1..Len(fut) : fut[i].st = "done"
    /\ Len(news) = Len(sstk)

\* C6: while the translation of some paragraph has not completed and been
\* collected, the composer has not started: no emission record, no operator,
\* no walk.
C6_ComposeAfterJoin ==
    \/ DispatchComplete
    \/ (~Composing /\ cs.ops_vals = <<>> /\ ops_list = <<>> /\ ops = <<>> /\ id = 1)

\* the composer walks the second text of a page, the operators of the first made
C6_Witness == pc = "walk" /\ ops_list # <<>> /\ Len(sstk) = 2 /\ id = 2

\* the walk stands at a marker that names no formula group
UnresolvedAt(k) ==
    LET m == MatchMarker(SubSeq(news[id], k, Len(news[id])))
    IN  m.ok /\ ~Resolves(m.group, vlen)

MarkerLenAt(k) == MatchMarker(SubSeq(news[id], k, Len(news[id]))).len

\* C7: a step of the walk that meets a marker naming no formula group (index
\* out of range, or no digits) raises nothing and changes nothing but the
\* read position, which moves past the marker: cursor, line counter, fonts,
\* buffered run and emission records stay as they are and the walk goes on.
C7_SkipsUnresolved ==
    [][ (pc = "walk" /\ cs.ptr <= Len(news[id]) /\ UnresolvedAt(cs.ptr)) =>
            /\ pc' = "walk"
            /\ failure' = ""
            /\ id' = id
            /\ ops_list' = ops_list
            /\ cs' = [cs EXCEPT !.ptr = cs.ptr + MarkerLenAt(cs.ptr)] ]_vars

\* the walk has just passed such a marker with a text run in its buffer
C7_Witness ==
    /\ pc = "walk"
    /\ cs.cstk # <<>>
    /\ \E k \in 1..(cs.ptr - 1) : UnresolvedAt(k) /\ k + MarkerLenAt(k) = cs.ptr

\* the markers of a text, left to right
RECURSIVE MarkersOf(_)
MarkersOf(s) ==
    IF s = <<>> THEN <<>>
    ELSE LET m == MatchMarker(s)
         IN  IF m.ok THEN <<MarkerIndex(m.group)>> \o MarkersOf(SubSeq(s, m.len + 1, Len(s)))
             ELSE MarkersOf(Tail(s))

\* C8: at every point of building and at its end, the markers embedded in the
\* paragraph texts, read in paragraph order, are 0, 1, ..., len(var) - 1: each
\* is a valid index of the formula table and each index appears exactly once,
\* in the order of creation.
C8_MarkersNameTable == MarkersOf(Concat(sstk)) = [k \in 1..Len(var) |-> k - 1]

\* a finished page with two formula groups
C8_Witness == pc = "dispatch" /\ Len(var) = 2 /\ Len(sstk) = 2

\* some paragraph has been placed
Placed == id > 1

\* C9 (as claimed): the multiplier a paragraph is placed with is at least 1.0.
C9_NeverBelowOne == Placed => AtLeastOne(line_height)

\* what lines 489-492 do instead: the loop decrements every multiplier that is
\* at least 1.0, so a paragraph is placed with at least 0.95 when the language
\* default is at least 1.0, and with the default when that is lower.
FloorOneStep ==
    Placed =>
        IF DefaultLineHeight(lang_out).n >= 20
        THEN line_height.n >= 19
        ELSE line_height = DefaultLineHeight(lang_out)

\* a wrapped paragraph placed below 1.0 that still overflows its height
C9_BelowOne ==
    /\ Placed
    /\ cs.lidx >= 1
    /\ ~AtLeastOne(line_height)
    /\ AtLeastOne(DefaultLineHeight(lang_out))
    /\ (cs.lidx + 1) * pstk[id - 1].size * line_height.n
          > 20 * (pstk[id - 1].y1 - pstk[id - 1].y0)

\* the page of C10: two glyphs, the first in region 0, the second a text
\* glyph of region 1 that is not adjacent to the first
TwoGlyphPage ==
    /\ pc = "dispatch"
    /\ Len(evs) = 2
    /\ evs[1].kind = "char" /\ evs[1].cls = 0
    /\ evs[2].kind = "char" /\ evs[2].cls = 1
    /\ evs[2].text \notin {Bullet, "(", ")"}
    /\ ~vflag(evs[2].font, evs[2].text) /\ ~evs[2].vert
    /\ evs[2].x0 > evs[1].x1 + 1

\* C10 (as claimed): such a page yields 1 paragraph and 1 formula group.
C10_OneParagraph == TwoGlyphPage => (Len(pstk) = 1 /\ Len(var) = 1)

\* C10 (amended): such a page yields 2 paragraphs and 1 formula group: the
\* region-0 glyph starts a paragraph of its own, whose text is the marker {v0}
\* of the group holding that glyph, and the region-1 glyph starts the second.
C10_TwoParagraphs ==
    TwoGlyphPage =>
        /\ Len(pstk) = 2
        /\ Len(var) = 1
        /\ var[1] = <<evs[1]>>
        /\ sstk = <<Placeholder(0), <<evs[2].text>>>>
        /\ pstk[1].x = evs[1].x0 /\ pstk[2].x = evs[2].x0

C10_Witness == TwoGlyphPage /\ Len(pstk) = 2

\* the glyph events of a sequence, in order
RECURSIVE CharsOf(_)
CharsOf(es) ==
    IF es = <<>> THEN <<>>
    ELSE IF es[1].kind = "char" THEN <<es[1]>> \o CharsOf(Tail(es))
    ELSE CharsOf(Tail(es))

\* the number of maximal runs of consecutive glyphs of one region
RegionRuns(gs) ==
    Cardinality({k \in 1..Len(gs) :
                    k = 1 \/ GlyphClass(gs[k]) # GlyphClass(gs[k - 1])})

\* glyph k is a text glyph that follows, in the same region, a formula run
\* that began its paragraph
SplitsAt(gs, k) ==
    LET before == RunEvents(InitBuilder, SubSeq(gs, 1, k - 1))
        after  == RunEvents(InitBuilder, SubSeq(gs, 1, k))
    IN  /\ k > 1
        /\ GlyphClass(gs[k]) = GlyphClass(gs[k - 1])
        /\ before.vstk # <<>> /\ Last(before.sstk) = <<>>
        /\ after.vstk = <<>>

FormulaSplits(gs) == Cardinality({k \in 1..Len(gs) : SplitsAt(gs, k)})

\* C11 (as claimed): the number of paragraphs is the number of maximal runs
\* of consecutive glyphs of one region, a bullet counted in region 0.
C11_ParagraphPerRun == Len(pstk) = RegionRuns(CharsOf(evs))

\* C11 (amended): the number of paragraphs is the number of such runs plus
\* the number of text glyphs that follow, within their region, a formula run
\* that began its paragraph: that paragraph holds the formula alone and the
\* text glyph starts another.
C11_ParagraphPerRunOrSplit ==
    Len(pstk) = RegionRuns(CharsOf(evs)) + FormulaSplits(CharsOf(evs))

\* a page of two regions one of which is split after its leading formula
C11_Witness ==
    /\ pc = "dispatch"
    /\ RegionRuns(CharsOf(evs)) = 2
    /\ FormulaSplits(CharsOf(evs)) = 1
    /\ Len(pstk) = 3

\* the paragraph the k-th event of the page, a glyph, was assigned to: the
\* last paragraph once the event is processed
ParagraphOf(k) == Len(RunEvents(InitBuilder, SubSeq(evs, 1, k)).pstk)

Contains(p, g) ==
    /\ p.x0 <= g.x0 /\ g.x1 <= p.x1
    /\ p.y0 <= g.y0 /\ g.y1 <= p.y1

\* C12: after every event the box of each paragraph contains the box of
\* every glyph assigned to it, text glyphs and formula glyphs alike.
C12_BoxContainsMembers ==
    \A k \in 1..Len(evs) :
        evs[k].kind = "char" => Contains(pstk[ParagraphOf(k)], evs[k])

\* a paragraph whose box has grown upwards over a raised formula glyph and
\* to the right over a later text glyph
C12_Witness ==
    /\ Len(pstk) = 1 /\ Len(evs) = 3 /\ Len(var) = 1
    /\ evs[1].kind = "char"
    /\ pstk[1].y1 > evs[1].y1
    /\ pstk[1].x1 > evs[1].x1

\* C13 (as claimed): no step lowers the font size of a paragraph.
C13_SizeNeverDecreases ==
    [][ \A i \in 1..Len(pstk) : pstk'[i].size >= pstk[i].size ]_vars

\* the step appends a text glyph to the paragraph that was current before it
JoinsText ==
    /\ Len(evs') = Len(evs) + 1
    /\ Last(evs').kind = "char"
    /\ vstk' = <<>>
    /\ Len(pstk') = Len(pstk)

\* C13 (amended): the font size of a paragraph changes only by the
\* size-alignment rule, and the rule can lower it: when a text glyph other
\* than a space joins the paragraph, the size becomes the glyph's size if the
\* glyph is larger or if the paragraph holds exactly one visible character so
\* far (the glyph may then be smaller); otherwise, and in every other step,
\* the size stays as it is.
C13_SizeAlignment ==
    [][ \A i \in 1..Len(pstk) :
           pstk'[i].size =
              IF /\ i = Len(pstk)
                 /\ JoinsText
                 /\ Last(evs').text # " "
                 /\ \/ Last(evs').size > pstk[i].size
                    \/ (vstk = <<>> /\ Len(Strip(sstk[i])) = 1)
              THEN Last(evs').size
              ELSE pstk[i].size ]_vars

\* a paragraph whose size dropped from 10 to 7 at its second visible glyph
C13_Witness ==
    /\ Len(evs) = 2 /\ Len(pstk) = 1 /\ Len(var) = 0 /\ vstk = <<>>
    /\ evs[1].kind = "char" /\ evs[2].kind = "char"
    /\ evs[2].size < evs[1].size
    /\ pstk[1].size = evs[2].size

\* the token the walk stands at: a marker match, or a single character
CurMarker == MatchMarker(SubSeq(news[id], cs.ptr, Len(news[id])))

CurResolves == CurMarker.ok /\ Resolves(CurMarker.group, vlen)

CurChar == news[id][cs.ptr]

\* the advance of that token: the width of the formula group it names, or the
\* width of the character in the font chosen for it
CurAdvance ==
    IF CurMarker.ok THEN vlen[MarkerIndex(CurMarker.group) + 1]
    ELSE CharAdvance(IF TiroHas(CurChar) THEN Tiro ELSE NotoName, CurChar, pstk[id].size)

\* x + adv > x1 + 0.1 * size
Crosses == 10 * (cs.x + CurAdvance) > 10 * pstk[id].x1 + pstk[id].size

\* C14: an iteration of the walk raises the line counter by one exactly when
\* the paragraph's line-break flag is set and the cursor plus the token's
\* advance crosses the right boundary plus 0.1 x size, and never otherwise;
\* on such a wrap the cursor restarts at the paragraph's left boundary (the
\* text run, or the first glyph of the formula, is placed at x0 on the new
\* line).  For a paragraph whose flag is unset every record has line index 0.
C14_WrapOnlyOnBreak ==
    [][ pc = "walk" =>
          LET p == pstk[id]
              wraps == /\ pc' = "walk"
                       /\ (CurMarker.ok => CurResolves)
                       /\ p.brk
                       /\ Crosses
              n0 == Len(cs.ops_vals) + (IF cs.cstk # <<>> THEN 1 ELSE 0)
          IN  /\ cs'.lidx = IF wraps THEN cs.lidx + 1 ELSE cs.lidx
              /\ wraps =>
                    IF CurMarker.ok
                    THEN /\ cs'.ops_vals[n0 + 1].x = p.x0
                         /\ cs'.ops_vals[n0 + 1].lidx = cs.lidx + 1
                         /\ \A k \in 1..n0 : cs'.ops_vals[k].lidx <= cs.lidx
                    ELSE /\ cs'.tx = p.x0
                         /\ cs'.x = p.x0 + (IF CurChar = " " THEN 0 ELSE CurAdvance)
              /\ ~p.brk => \A k \in 1..Len(cs'.ops_vals) : cs'.ops_vals[k].lidx = 0 ]_vars

\* a wrapped paragraph: a record on line 1 that starts at the left boundary
C14_Witness ==
    /\ pc = "walk" /\ pstk[id].brk /\ cs.lidx = 1
    /\ \E k \in 1..Len(cs.ops_vals) :
          cs.ops_vals[k].lidx = 1 /\ cs.ops_vals[k].x = pstk[id].x0

\* a paragraph without line break whose text has run past its right boundary
C14_OverflowUnwrapped ==
    /\ pc = "walk" /\ ~pstk[id].brk /\ cs.lidx = 0
    /\ 10 * cs.x > 10 * pstk[id].x1 + pstk[id].size
    /\ cs.ops_vals # <<>>

IsPrefix(s, t) == Len(s) <= Len(t) /\ SubSeq(t, 1, Len(s)) = s

Suffix(s, t) == SubSeq(t, Len(s) + 1, Len(t))

IsLineOp(o) == o.op = "q cm d J w m l S Q"

\* the operators of the records of a walk, in the order the records were made
RecordOps(recs, p, lh) ==
    Concat([k \in 1..Len(recs) |-> gen_op(PlaceRecord(recs[k], p.y, p.size, lh))])

\* the lines of the page that are not part of a formula, the thick ones left out
GlobalLineOps ==
    LET ls == SelectSeq(lstk, LAMBDA l : l.linewidth < DecorativeWidth)
    IN  Concat([k \in 1..Len(ls) |->
                  << [op |-> "ET"],
                     [op |-> "q cm d J w m l S Q", x |-> ls[k].x0, y20 |-> 20 * ls[k].y0,
                      linewidth |-> ls[k].linewidth, xlen |-> ls[k].x1 - ls[k].x0,
                      ylen |-> ls[k].y1 - ls[k].y0],
                     [op |-> "BT"] >>])

\* C15: the operator list only grows at its end; paragraphs are finished in
\* the order 1, 2, ..., each adding the operators of its own records in the
\* order the records were created; the page-global lines are added after the
\* last paragraph; and the returned stream is 'BT ', that list, 'ET '.
C15_StreamOrder ==
    [][ /\ IsPrefix(ops_list, ops_list')
        /\ id' \in {id, id + 1}
        /\ (id' = id + 1) =>
              Suffix(ops_list, ops_list') = RecordOps(cs'.ops_vals, pstk[id], line_height')
        /\ (id' = id /\ pc' # "returned") => ops_list' = ops_list
        /\ (pc # "returned" /\ pc' = "returned") =>
              /\ id > Len(news)
              /\ Suffix(ops_list, ops_list') = GlobalLineOps
              /\ ops' = <<[op |-> "BT"]>> \o ops_list' \o <<[op |-> "ET"]>>
        /\ pc' # "returned" => ops' = <<>> ]_vars

\* a returned stream with the operators of two paragraphs and a global line
C15_Witness ==
    /\ pc = "returned" /\ Len(news) = 2
    /\ Len(ops) >= 6
    /\ ops[2].op = "Tf Tm TJ" /\ IsLineOp(ops[Len(ops) - 2])
    /\ \E k \in 3..(Len(ops) - 4) : ops[k].op = "Tf Tm TJ" /\ ops[k].y20 # ops[2].y20

\* the glyphs of the page that were pushed on the formula accumulator, in
\* page order: event k is one when the accumulator ends with it once it is
\* processed
RECURSIVE AccumulatedUpTo(_)
AccumulatedUpTo(k) ==
    IF k = 0 THEN <<>>
    ELSE LET b == RunEvents(InitBuilder, SubSeq(evs, 1, k))
         IN  IF evs[k].kind = "char" /\ b.vstk # <<>> /\ Last(b.vstk) = evs[k]
             THEN Append(AccumulatedUpTo(k - 1), evs[k])
             ELSE AccumulatedUpTo(k - 1)

\* C16: when the event stream is exhausted the glyphs of the formula groups,
\* read group by group, are exactly the glyphs that were pushed on the
\* accumulator, in their order, those of a run still open at the last event
\* included; until then the open run holds the ones not yet in a group.
\* Every group has glyphs, a line list, a correction and a width.
C16_AllFormulasFlushed ==
    /\ pc = "build" => Concat(var) \o vstk = AccumulatedUpTo(Len(evs))
    /\ pc # "build" =>
          /\ Concat(var) = AccumulatedUpTo(Len(evs))
          /\ Len(varl) = Len(var) /\ Len(varf) = Len(var) /\ Len(vlen) = Len(var)
    /\ \A k \in 1..Len(var) : var[k] # <<>>

\* a finished page whose last event left a two-glyph formula run open
C16_Witness ==
    /\ pc = "dispatch" /\ Len(evs) = 3
    /\ Last(evs).kind = "char"
    /\ Len(var) = 1 /\ Len(var[1]) = 2 /\ Last(var[1]) = Last(evs)
    /\ Last(sstk) = <<"a">> \o Placeholder(0)

\* how often e occurs in sequence s
Count(e, s) == Cardinality({k \in 1..Len(s) : s[k] = e})

\* the lines the builder holds: those of the formula groups, those of the
\* open run while the page is read, and the page-global ones
HeldLines == Concat(varl) \o (IF pc = "build" THEN vlstk ELSE <<>>) \o lstk

\* C17: a Line event is appended to the line list of the open formula run
\* when a run is open and the line's region is the region of the run's
\* glyphs, and to the page-global list otherwise, never to both; and every
\* line of the page is held exactly once among the groups' lists, the open
\* run's list and the global list.
C17_LineToOneList ==
    [][ /\ (Len(evs') = Len(evs) + 1 /\ Last(evs').kind = "line") =>
              IF vstk # <<>> /\ Last(evs').cls = GlyphClass(Last(vstk))
              THEN vlstk' = Append(vlstk, Last(evs')) /\ lstk' = lstk
              ELSE lstk' = Append(lstk, Last(evs')) /\ vlstk' = vlstk
        /\ \A l \in Lines : Count(l, HeldLines') = Count(l, evs') ]_vars

\* a finished page with one line in a formula group and one global line
C17_Witness ==
    /\ pc = "dispatch"
    /\ Len(var) = 1 /\ Len(varl[1]) = 1 /\ Len(lstk) = 1

\* a step of the walk inserts the formula group named by the marker at ptr
InsertsFormula == pc = "walk" /\ pc' = "walk" /\ CurResolves

\* the glyph records such a step appends are those of the group's glyphs, the
\* k-th at x = cursor + (glyph.x0 - first.x0) and dy = fix + (glyph.y0 -
\* first.y0), on the current line, in the glyph's own font and size; the
\* cursor is the left boundary when the step wraps
GlyphsPlacedWith(fix) ==
    LET p   == pstk[id]
        g   == var[MarkerIndex(CurMarker.group) + 1]
        n0  == Len(cs.ops_vals) + (IF cs.cstk # <<>> THEN 1 ELSE 0)
        cur == IF p.brk /\ Crosses THEN p.x0 ELSE cs.x
    IN  /\ Len(cs'.ops_vals) >= n0 + Len(g)
        /\ \A k \in 1..Len(g) :
              LET r == cs'.ops_vals[n0 + k]
              IN  /\ r.type = "text"
                  /\ r.font = g[k].font /\ r.size = g[k].size
                  /\ r.x = cur + (g[k].x0 - g[1].x0)
                  /\ r.dy = fix + (g[k].y0 - g[1].y0)
                  /\ r.lidx = cs'.lidx

\* when a paragraph is finished, record k becomes an operator at
\* y = anchor y + dy - line_index x size x line_height (in twentieths)
RecordsPlaced ==
    (pc = "walk" /\ id' = id + 1) =>
        LET p    == pstk[id]
            recs == cs'.ops_vals
            new  == Suffix(ops_list, ops_list')
            txt  == SelectSeq(recs, LAMBDA r : r.type = "text")
            tops == SelectSeq(new, LAMBDA o : o.op = "Tf Tm TJ")
        IN  /\ Len(tops) = Len(txt)
            /\ \A k \in 1..Len(txt) :
                  /\ tops[k].x = txt[k].x
                  /\ tops[k].y20 = 20 * (p.y + txt[k].dy)
                                     - txt[k].lidx * p.size * line_height'.n

\* C18 (as claimed): the group's vertical correction is added at every
\* position of the marker.
C18_CorrectionEverywhere ==
    [][ /\ InsertsFormula => GlyphsPlacedWith(varf[MarkerIndex(CurMarker.group) + 1])
        /\ RecordsPlaced ]_vars

\* C18 (amended): the group's vertical correction is added only when an
\* ordinary character of the translated text has been laid out before the
\* marker (the current font is set); before that, in particular when the
\* marker is the first token, the correction is 0.
C18_CorrectionAfterText ==
    [][ /\ InsertsFormula =>
              GlyphsPlacedWith(IF cs.fcur # NoFont
                               THEN varf[MarkerIndex(CurMarker.group) + 1] ELSE 0)
        /\ RecordsPlaced ]_vars

\* a formula group with a correction was inserted as the first token, and
\* the walk has gone on
C18_Witness ==
    /\ pc = "walk" /\ Len(var) = 1 /\ varf[1] # 0
    /\ cs.ops_vals # <<>>
    /\ cs.ops_vals[1].font = MathFont /\ cs.ops_vals[1].dy = 0
    /\ cs.cstk # <<>>

\* the strokes of s no wider than w
UpTo(s, w) == SelectSeq(s, LAMBDA l : l.linewidth <= w)

\* the strokes a step of the composer emits: line records of the walk, or
\* line operators of the page-global lines
EmittedWidths ==
    IF InsertsFormula
    THEN LET new == Suffix(cs.ops_vals, cs'.ops_vals)
             ls  == SelectSeq(new, LAMBDA r : r.type = "line")
         IN  [k \in 1..Len(ls) |-> ls[k].linewidth]
    ELSE LET new == Suffix(ops_list, ops_list')
             ls  == SelectSeq(new, IsLineOp)
         IN  [k \in 1..Len(ls) |-> ls[k].linewidth]

Widths(s) == [k \in 1..Len(s) |-> s[k].linewidth]

\* the strokes a step has to consider: the lines of the inserted group, or
\* the page-global lines when the stream is closed
OfferedStrokes ==
    IF InsertsFormula THEN varl[MarkerIndex(CurMarker.group) + 1] ELSE lstk

EmitsStrokes == InsertsFormula \/ (pc = "compose" /\ pc' = "returned")

\* C19 (as claimed): a stroke is dropped exactly when it is wider than 5; one
\* of width 5 is emitted.
C19_DropsWiderThanFive ==
    [][ EmitsStrokes => EmittedWidths = Widths(UpTo(OfferedStrokes, DecorativeWidth)) ]_vars

\* what lines 452 and 501 do: a stroke is emitted exactly when it is thinner
\* than 5; one of width 5 is dropped.
DropsFromFive ==
    [][ EmitsStrokes => EmittedWidths = Widths(UpTo(OfferedStrokes, DecorativeWidth - 1)) ]_vars

\* a returned stream for a page with global strokes of width 4, 5 and 6, only
\* the first of them in the stream
C19_WidthFiveDropped ==
    /\ pc = "returned"
    /\ {lstk[k].linewidth : k \in 1..Len(lstk)} = {4, 5, 6}
    /\ {ops[k].linewidth : k \in {j \in 1..Len(ops) : IsLineOp(ops[j])}} = {4}

\* the step reads a glyph; the glyph read
ReadsGlyph == pc = "build" /\ Len(evs') = Len(evs) + 1 /\ Last(evs').kind = "char"

GlyphRead == Last(evs')

\* the glyph read was pushed on the formula accumulator
PushedAsFormula == vstk' # <<>> /\ Last(vstk') = GlyphRead

\* C20 (as claimed): with a run open every "(" is formula and raises the
\* depth by one; with depth > 0 every ")" is formula and lowers it by one; the
\* depth is never negative; a ")" that only bridging makes formula arrives
\* inside an open run.
C20_BridgingInsideRun ==
    [][ ReadsGlyph =>
          /\ (vstk # <<>> /\ GlyphRead.text = "(") =>
                 (PushedAsFormula /\ vbkt' = vbkt + 1)
          /\ (vbkt > 0 /\ GlyphRead.text = ")") =>
                 (PushedAsFormula /\ vbkt' = vbkt - 1)
          /\ vbkt' >= 0
          /\ (GlyphRead.text = ")" /\ PushedAsFormula
                 /\ ~IsFormulaGlyph(Builder, GlyphRead)) => vstk # <<>> ]_vars

\* C20 (amended): bridging applies only to a glyph the cascade has not made
\* formula; then "(" with a run open is formula and raises the depth by one,
\* and ")" with depth > 0 is formula and lowers it by one, whether or not a
\* run is still open (the depth outlives the run that raised it); in every
\* other case the depth stays as it is.  The depth is never negative.
C20_BridgingByDepth ==
    [][ ReadsGlyph =>
          LET byCascade == IsFormulaGlyph(Builder, GlyphRead)
              opens     == ~byCascade /\ vstk # <<>> /\ GlyphRead.text = "("
              closes    == ~byCascade /\ vbkt > 0 /\ GlyphRead.text = ")"
          IN  /\ PushedAsFormula <=> (byCascade \/ opens \/ closes)
              /\ vbkt' = IF opens THEN vbkt + 1 ELSE IF closes THEN vbkt - 1 ELSE vbkt
              /\ vbkt' >= 0 ]_vars

\* a ")" made formula by bridging alone after the run holding "(" was closed
\* by a text glyph
C20_ClosedOutsideRun ==
    /\ evs = PageBridged
    /\ vbkt = 0 /\ vstk = <<Last(evs)>>
    /\ Len(var) = 1 /\ var[1] = <<evs[1], evs[2]>>

\* a finished page of glyphs of one region: a formula glyph, a bridged "(",
\* glyphs that are no parentheses, and the matching ")"
ParenthesizedPage ==
    /\ pc = "dispatch"
    /\ Len(evs) >= 3
    /\ \A k \in 1..Len(evs) : evs[k].kind = "char" /\ GlyphClass(evs[k]) = GlyphClass(evs[1])
    /\ vflag(evs[1].font, evs[1].text)
    /\ evs[2].text = "(" /\ evs[2].font = TextFont
    /\ Last(evs).text = ")"
    /\ \A k \in 3..(Len(evs) - 1) : evs[k].text \notin {"(", ")"}
    /\ \A k \in 2..Len(evs) : evs[k].x0 >= evs[k - 1].x0 /\ evs[k].x0 <= evs[k - 1].x1 + 1

\* C21 (as claimed): on such a page every glyph from the run's first glyph
\* to the closing parenthesis is in one formula group, text glyphs between
\* the parentheses included.
C21_SubExpressionGrouped == ParenthesizedPage => (Len(var) = 1 /\ var[1] = evs)

\* what lines 226-258 do on the page x ( a ): the text glyph between the
\* parentheses ends the run, and the closing parenthesis starts another group
C21_SubExpressionSplit ==
    /\ pc = "dispatch" /\ evs = PageBridged
    /\ var = << <<evs[1], evs[2]>>, <<evs[4]>> >>
    /\ sstk = << Placeholder(0) >>
             \o << <<"a">> \o Placeholder(1) >>

-----------------------------------------------------------------------------
(* The translator on its own: calls of translate, changes of ignore_cache  *)
(* and added cache parameters, in any order                                *)

\* a translator is constructed; receive_layout is not running
InitTranslate ==
    /\ pc = "translator"
    /\ evs = <<>>
    /\ IsBuilder(InitBuilder)
    /\ thread = 1
    /\ calls = <<>>
    /\ failed = <<>>
    /\ lang_out = "en"
    /\ IdleDispatcher
    /\ IdleComposer
    /\ debug = FALSE
    /\ IdleLibrary

NextTranslate ==
    \/ \E text \in Texts, arg \in BOOLEAN : TranslateFromCache(text, arg)
    \/ \E text \in Texts, arg \in BOOLEAN : TranslateFresh(text, arg)
    \/ \E text \in Texts, arg \in BOOLEAN : TranslateThrows(text, arg)
    \/ \E b \in BOOLEAN : SetIgnoreCache(b)
    \/ \E q \in ParamPairs : AddCacheImpactParameters(q[1], q[2])

SpecTranslate == InitTranslate /\ [][NextTranslate]_vars

\* the calls of translate in the history
IsCall(i) == log[i].op = "translate"

\* call j was made with caching enabled
CachingEnabled(j) == ~log[j].ignore_cache /\ ~log[j].self_ignore_cache

\* call i returned a value for the text and the parameters of call j
SameRequest(i, j) ==
    /\ IsCall(i) /\ ~log[i].raised
    /\ log[i].text = log[j].text /\ log[i].params = log[j].params

\* call i is the latest call before j that returned for j's text and parameters
FirstCallOf(i, j) ==
    /\ i < j /\ SameRequest(i, j)
    /\ \A m \in (i + 1)..(j - 1) : ~SameRequest(m, j)

\* C22: a call of translate with caching enabled, made after a call that
\* returned for the same text under the same cache parameters, returns the
\* value of that call and does not invoke do_translate
C22_SecondCallFromCache ==
    \A j \in 1..Len(log) : \A i \in 1..Len(log) :
        (IsCall(j) /\ CachingEnabled(j) /\ FirstCallOf(i, j))
            => (~log[j].called /\ ~log[j].raised /\ log[j].value = log[i].value)

\* the test's run: a first call translates, another text is translated, the
\* second call of the first text is answered with the first value
C22_Witness ==
    /\ Len(log) >= 3
    /\ IsCall(1) /\ log[1].called /\ CachingEnabled(1) /\ ~log[1].raised
    /\ IsCall(2) /\ log[2].text # log[1].text /\ log[2].called
    /\ IsCall(3) /\ CachingEnabled(3) /\ FirstCallOf(1, 3)
    /\ log[3].value = log[1].value /\ self_n = 2

\* C23: a call of translate with ignore_cache set, on the instance or as the
\* argument, invokes do_translate whatever the cache holds; the next call for
\* the same text and parameters with caching enabled returns its result
C23_IgnoreCacheReplaces ==
    \A j \in 1..Len(log) :
        /\ (IsCall(j) /\ ~CachingEnabled(j)) => log[j].called
        /\ \A i \in 1..Len(log) :
               (IsCall(j) /\ CachingEnabled(j) /\ FirstCallOf(i, j)
                   /\ ~CachingEnabled(i))
                   => (~log[j].called /\ log[j].value = log[i].value)

\* a cached text is translated again with ignore_cache set, and the call
\* after it with caching enabled returns the second value, not the first
C23_Witness ==
    /\ Len(log) >= 3
    /\ IsCall(1) /\ CachingEnabled(1) /\ log[1].called /\ ~log[1].raised
    /\ IsCall(2) /\ ~CachingEnabled(2) /\ SameRequest(1, 2) /\ log[2].called
    /\ IsCall(3) /\ CachingEnabled(3) /\ FirstCallOf(2, 3) /\ ~log[3].called
    /\ log[3].value = log[2].value /\ log[3].value # log[1].value

\* call a added a parameter under a key the cache did not have
AddsParameter(a) == log[a].op = "add_params" /\ log[a].new

\* call i returned a translation of the text of call j
ReturnedFor(i, j) == IsCall(i) /\ ~log[i].raised /\ log[i].text = log[j].text

\* C24: after add_cache_impact_parameters has added a parameter, the first
\* call of translate for a text invokes do_translate, also when the text was
\* cached under the parameters before, and what it returns is new
C24_AddedParameterMisses ==
    \A j \in 1..Len(log) : \A a \in 1..Len(log) :
        (/\ IsCall(j) /\ CachingEnabled(j)
         /\ a < j /\ AddsParameter(a)
         /\ \A m \in (a + 1)..(j - 1) : ~ReturnedFor(m, j))
            => /\ log[j].called
               /\ ~log[j].raised =>
                      \A i \in 1..(j - 1) : IsCall(i) => log[i].value # log[j].value

\* the test's run: a text is translated and cached, a parameter is added, and
\* the same text is translated again with caching enabled
C24_Witness ==
    /\ Len(log) >= 3
    /\ IsCall(1) /\ CachingEnabled(1) /\ ~log[1].raised
    /\ AddsParameter(2)
    /\ IsCall(3) /\ CachingEnabled(3) /\ ReturnedFor(1, 3)
    /\ log[3].called /\ ~log[3].raised /\ log[3].value # log[1].value
    /\ log[3].params # log[1].params

\* call i raised for the text and the parameters of call j
RaisedFor(i, j) ==
    /\ IsCall(i) /\ log[i].raised
    /\ log[i].text = log[j].text /\ log[i].params = log[j].params

\* C25: a call of translate whose do_translate raises returns nothing and
\* leaves no row in the cache: every row is the value some call returned, and
\* a call for a text that so far only raised invokes do_translate again
C25_RaiseLeavesNoEntry ==
    /\ \A j \in 1..Len(log) :
           (IsCall(j) /\ log[j].raised) => (log[j].called /\ log[j].value = None)
    /\ \A r \in cache : \E i \in 1..Len(log) :
           /\ IsCall(i) /\ ~log[i].raised /\ log[i].called
           /\ log[i].text = r.text /\ log[i].params = r.params
    /\ \A j \in 1..Len(log) : \A i \in 1..Len(log) :
           (/\ IsCall(j) /\ i < j /\ RaisedFor(i, j)
            /\ \A m \in 1..(j - 1) : ~SameRequest(m, j))
               => log[j].called

\* do_translate raised for a text, and the next call for the text, with
\* caching enabled, invoked do_translate again
C25_Witness ==
    /\ Len(log) >= 2
    /\ IsCall(1) /\ log[1].raised /\ CachingEnabled(1)
    /\ IsCall(2) /\ CachingEnabled(2) /\ RaisedFor(1, 2)
    /\ log[2].called /\ ~log[2].raised /\ self_n = 2
    /\ \E r \in cache : r.text = log[2].text /\ r.translation = log[2].value

-----------------------------------------------------------------------------
(* Part E: BedrockTranslator.do_translate under its retry decorator        *)
(* (translator.py 269-326)                                                 *)

\* line 270: stop_after_attempt(5)
StopAfterAttempt == 5

\* what invoke_model does in one attempt: it answers, or fails with a
\* ClientError of one of these codes ("InternalFailure" stands for every code
\* the function does not name)
InvokeOutcomes ==
    {"ok", "ValidationException", "AccessDeniedException", "ThrottlingException",
     "ServiceUnavailableException", "TooManyRequestsException", "InternalFailure"}

\* lines 296-326: what one run of the function body ends with
BodyEnds(outcome) ==
    IF outcome = "ok" THEN [kind |-> "returned", code |-> outcome]
    ELSE IF outcome \in {"ValidationException", "AccessDeniedException"}
    THEN [kind |-> "ValueError", code |-> outcome]
    ELSE [kind |-> "ClientError", code |-> outcome]

\* every exception is retried
RetryIfAnyException(ended) == ended.kind # "returned"

\* line 272: retry_if_not_exception_type(ValueError)
RetryIf(ended) == ended.kind \notin {"returned", "ValueError"}

\* the decorator without its attempt limit
AfterAttemptNoStop(ended, attempt_number) ==
    IF ~RetryIf(ended) THEN ended ELSE StillRunning

\* lines 269-278: the decorator after an attempt: the call returns, raises
\* what the body raised, raises RetryError at the attempt limit, or goes on
AfterAttempt(ended, attempt_number) ==
    IF ~RetryIf(ended) THEN ended
    ELSE IF attempt_number >= StopAfterAttempt
    THEN [kind |-> "RetryError", code |-> ended.code]
    ELSE StillRunning

\* one attempt of the running call: invoke_model answers or fails
InvokeModel(outcome) ==
    /\ result = StillRunning
    /\ attempt' = Append(attempt, outcome)
    /\ result' = AfterAttempt(BodyEnds(outcome), Len(attempt'))
    /\ UNCHANGED <<converterVars, translatorVars, configVars>>

\* do_translate("test") is called on a constructed BedrockTranslator
InitBedrock == InitTranslate

NextBedrock == \E outcome \in InvokeOutcomes : InvokeModel(outcome)

SpecBedrock == InitBedrock /\ [][NextBedrock]_vars

\* the call has ended
Ended == result # StillRunning

\* C26: a do_translate call makes at most 5 attempts; every attempt before
\* the last failed with a ClientError that is not a validation or access
\* error and was retried; the call returns exactly when its last attempt
\* answered, and after a fifth failed attempt it raises
C26_RetriesUpToFive ==
    /\ Len(attempt) <= 5
    /\ \A i \in 1..(Len(attempt) - 1) :
           attempt[i] \notin {"ok", "ValidationException", "AccessDeniedException"}
    /\ (result.kind = "returned") <=> (attempt # <<>> /\ Last(attempt) = "ok")
    /\ (Len(attempt) = 5 /\ Last(attempt) # "ok")
           => result.kind \in {"RetryError", "ValueError"}
    /\ (~Ended /\ attempt # <<>>) => Len(attempt) < 5

\* the test's run: a throttled attempt, then an answer, two attempts in all
C26_Witness ==
    /\ attempt = <<"ThrottlingException", "ok">>
    /\ result.kind = "returned"

\* five throttled attempts end the call with an error
C26_WitnessExhausted ==
    /\ Len(attempt) = 5
    /\ \A i \in 1..5 : attempt[i] = "ThrottlingException"
    /\ result.kind = "RetryError"

\* C27: an attempt in which invoke_model fails with ValidationException or
\* AccessDeniedException is not retried: it is the last attempt of the call
\* and the call raises ValueError naming the code; when it is the first
\* attempt the call has made exactly one
C27_ValidationNotRetried ==
    \A i \in 1..Len(attempt) :
        attempt[i] \in {"ValidationException", "AccessDeniedException"}
            => /\ i = Len(attempt)
               /\ result = [kind |-> "ValueError", code |-> attempt[i]]

\* the test's run: the first attempt fails with ValidationException and the
\* call ends with ValueError after this one attempt
C27_Witness ==
    /\ attempt = <<"ValidationException">>
    /\ result = [kind |-> "ValueError", code |-> "ValidationException"]

-----------------------------------------------------------------------------
(* Part F: ConfigManager.get_instance, custome_config (config.py 8-91) and *)
(* configure_service (mcp_server.py 178-214), called by threads            *)

\* mcp_server.py 200
valid_services == {"bedrock", "google", "openai", "deepl", "ollama", "azure"}

\* config.py 105, 111, 124: instance._config_data[key] = value; a key the
\* dict has keeps its place, a new key goes to the end
DictSet(data, key, value) ==
    IF \E i \in 1..Len(data) : data[i][1] = key
    THEN [i \in 1..Len(data) |-> IF data[i][1] = key THEN <<key, value>> ELSE data[i]]
    ELSE Append(data, <<key, value>>)

\* config.py 62-77 on a dict of plain values: a value is a Python object, and
\* a value that is the object seen under an earlier key comes out as None
_remove_circular_references(data) ==
    [i \in 1..Len(data) |->
        IF \E j \in 1..(i - 1) : data[j][2] = data[i][2]
        THEN <<data[i][1], None>> ELSE data[i]]

\* config.py 119-125 as Python calls it: set(cls, key, value) takes two
\* arguments; handed any other number the call raises TypeError before its
\* body runs
ConfigManagerSet(data, args) ==
    IF Len(args) # 2 THEN [raised |-> "TypeError", data |-> data]
    ELSE [raised |-> "", data |-> DictSet(data, args[1], args[2])]

\* a thread calls a classmethod or the tool
Call(t, op, service, config) ==
    /\ at[t] = NoCall
    /\ at' = [at EXCEPT ![t] = [op |-> op, line |-> IF op = "custome_config" THEN 86 ELSE 16,
                                service |-> service, config |-> config,
                                first |-> FALSE, instance |-> 0,
                                key |-> "", value |-> None]]
    /\ UNCHANGED <<_instance, _lock, _config_data, config_json, made, reply>>
    /\ UNCHANGED <<converterVars, translatorVars, bedrockVars>>

\* config.py 16: if cls._instance is None
GetInstanceCheck(t) ==
    /\ at[t].line = 16
    /\ at' = [at EXCEPT ![t].line = IF _instance = 0 THEN 17 ELSE 20,
                        ![t].first = (_instance = 0)]
    /\ UNCHANGED <<_instance, _lock, _config_data, config_json, made, reply>>
    /\ UNCHANGED <<converterVars, translatorVars, bedrockVars>>

\* config.py 17, 86 and 123: with cls._lock, entered when no other thread holds it
AcquireLock(t) ==
    /\ at[t].line \in {17, 86, 123}
    /\ _lock = 0
    /\ _lock' = t
    /\ at' = [at EXCEPT ![t].line = @ + 1]
    /\ UNCHANGED <<_instance, _config_data, config_json, made, reply>>
    /\ UNCHANGED <<converterVars, translatorVars, bedrockVars>>

\* line 19 without the second check of line 18
GetInstanceCreateUnchecked(t) ==
    /\ at[t].line = 18
    /\ made' = Append(made, "get_instance")
    /\ _config_data' = Append(_config_data, <<>>)
    /\ config_json' = Append(config_json, <<>>)
    /\ _instance' = Len(made')
    /\ _lock' = 0
    /\ at' = [at EXCEPT ![t].line = 20]
    /\ UNCHANGED reply
    /\ UNCHANGED <<converterVars, translatorVars, bedrockVars>>

\* config.py 18-19: the second check, cls._instance = cls(), and the lock is
\* released
GetInstanceCreate(t) ==
    /\ at[t].line = 18
    /\ IF _instance = 0
       THEN /\ made' = Append(made, "get_instance")
            /\ _config_data' = Append(_config_data, <<>>)
            /\ config_json' = Append(config_json, <<>>)
            /\ _instance' = Len(made')
       ELSE UNCHANGED <<_instance, _config_data, config_json, made>>
    /\ _lock' = 0
    /\ at' = [at EXCEPT ![t].line = 20]
    /\ UNCHANGED reply
    /\ UNCHANGED <<converterVars, translatorVars, bedrockVars>>

\* config.py 20: return cls._instance; the tool goes on from its line 197
GetInstanceReturn(t) ==
    /\ at[t].line = 20
    /\ IF at[t].op = "get_instance"
       THEN /\ reply' = [reply EXCEPT ![t] = "returned"]
            /\ at' = [at EXCEPT ![t].line = 0, ![t].instance = _instance]
       ELSE /\ UNCHANGED reply
            /\ at' = [at EXCEPT ![t].line = IF at[t].op = "get" THEN 99
                                            ELSE IF at[t].op = "set" THEN 123
                                            ELSE 199,
                                ![t].instance = _instance]
    /\ UNCHANGED <<_instance, _lock, _config_data, config_json, made>>
    /\ UNCHANGED <<converterVars, translatorVars, bedrockVars>>

\* config.py 87-91: a new instance replaces the held one, and the lock is
\* released
CustomeConfig(t) ==
    /\ at[t].line = 87
    /\ made' = Append(made, "custome_config")
    /\ _config_data' = Append(_config_data, <<>>)
    /\ config_json' = Append(config_json, <<>>)
    /\ _instance' = Len(made')
    /\ _lock' = 0
    /\ at' = [at EXCEPT ![t].line = 0]
    /\ reply' = [reply EXCEPT ![t] = "returned"]
    /\ UNCHANGED <<converterVars, translatorVars, bedrockVars>>

\* mcp_server.py 205-206: the loop over config.items(), each item handed to
\* config_manager.set(service, key, value); the first call that raises ends it
RECURSIVE StoreItems(_, _, _)
StoreItems(data, service, items) ==
    IF items = {} THEN [raised |-> "", data |-> data]
    ELSE LET item == CHOOSE q \in items : TRUE
             next == ConfigManagerSet(data, <<service, item[1], item[2]>>)
         IN  IF next.raised # "" THEN next
             ELSE StoreItems(next.data, service, items \ {item})

\* mcp_server.py 199-214: the service name is validated, the items are
\* stored, and the message is returned; an exception becomes an error message
ConfigureService(t) ==
    /\ at[t].line = 199
    /\ LET stored == StoreItems(_config_data[at[t].instance], at[t].service,
                                at[t].config)
       IN  IF at[t].service \notin valid_services
           THEN /\ reply' = [reply EXCEPT ![t] = "Error: Invalid service"]
                /\ UNCHANGED <<_config_data, config_json>>
           ELSE IF stored.raised # ""
           THEN /\ reply' = [reply EXCEPT ![t] = "Error: Configuration update failed"]
                /\ UNCHANGED <<_config_data, config_json>>
           ELSE /\ reply' = [reply EXCEPT ![t] = "Successfully updated configuration"]
                /\ _config_data' = [_config_data EXCEPT ![at[t].instance] = stored.data]
                /\ config_json' =
                       IF at[t].config = {} THEN config_json
                       ELSE [config_json EXCEPT ![at[t].instance] =
                                _remove_circular_references(stored.data)]
    /\ at' = [at EXCEPT ![t].line = 0]
    /\ UNCHANGED <<_instance, _lock, made>>
    /\ UNCHANGED <<converterVars, translatorVars, bedrockVars>>

\* os.environ as config.py 103-104 reads it: one variable is set
Environ == {<<"b", "3">>}

\* a thread calls ConfigManager.get(key, default) or ConfigManager.set(key,
\* value); both begin with get_instance (config.py 96, 122)
CallManager(t, op, key, value) ==
    /\ at[t] = NoCall
    /\ at' = [at EXCEPT ![t] = [NoCall EXCEPT !.op = op, !.line = 16, !.key = key,
                                              !.value = value]]
    /\ UNCHANGED <<_instance, _lock, _config_data, config_json, made, reply>>
    /\ UNCHANGED <<converterVars, translatorVars, bedrockVars>>

\* config.py 99-117: get answers from the dict, or goes on to write back the
\* environment's value or a default that is not None, or returns None
GetCheck(t) ==
    /\ at[t].line = 99
    /\ LET data == _config_data[at[t].instance]
           key  == at[t].key
       IN  IF \E i \in 1..Len(data) : data[i][1] = key
           THEN /\ reply' = [reply EXCEPT ![t] =
                                data[CHOOSE i \in 1..Len(data) : data[i][1] = key][2]]
                /\ at' = [at EXCEPT ![t].line = 0]
           ELSE IF \E e \in Environ : e[1] = key
           THEN /\ at' = [at EXCEPT ![t].line = 105,
                                    ![t].value = (CHOOSE e \in Environ : e[1] = key)[2]]
                /\ UNCHANGED reply
           ELSE IF at[t].value # None
           THEN /\ at' = [at EXCEPT ![t].line = 111]
                /\ UNCHANGED reply
           ELSE /\ reply' = [reply EXCEPT ![t] = "returned"]
                /\ at' = [at EXCEPT ![t].line = 0]
    /\ UNCHANGED <<_instance, _lock, _config_data, config_json, made>>
    /\ UNCHANGED <<converterVars, translatorVars, bedrockVars>>

\* config.py 105, 111 (get, no lock taken) and 124 (set, inside its with):
\* instance._config_data[key] = value
WriteData(t) ==
    /\ at[t].line \in {105, 111, 124}
    /\ _config_data' = [_config_data EXCEPT ![at[t].instance] =
                           DictSet(@, at[t].key, at[t].value)]
    /\ at' = [at EXCEPT ![t].line = @ + 1]
    /\ UNCHANGED <<_instance, _lock, config_json, made, reply>>
    /\ UNCHANGED <<converterVars, translatorVars, bedrockVars>>

\* config.py 54-60, called at 106, 112 and 125: with self._lock (reentrant)
\* the cleaned data is written to the file; the lock is free when the call
\* returns, get with the value and set with None
SaveConfig(t) ==
    /\ at[t].line \in {106, 112, 125}
    /\ _lock \in {0, t}
    /\ config_json' = [config_json EXCEPT ![at[t].instance] =
                          _remove_circular_references(_config_data[at[t].instance])]
    /\ _lock' = 0
    /\ reply' = [reply EXCEPT ![t] = IF at[t].op = "get" THEN at[t].value ELSE "returned"]
    /\ at' = [at EXCEPT ![t].line = 0]
    /\ UNCHANGED <<_instance, _config_data, made>>
    /\ UNCHANGED <<converterVars, translatorVars, bedrockVars>>

\* no ConfigManager exists and no thread has called yet
InitConfig == InitTranslate

NextConfig ==
    \E t \in Threads :
        \/ \E op \in {"get_instance", "custome_config"} : Call(t, op, "", {})
        \/ \E service \in {"bedrock", "aws"},
              config \in {{}, {<<"AWS_REGION", "us-west-2">>}} :
              Call(t, "configure_service", service, config)
        \/ \E key \in {"a", "b"} : CallManager(t, "set", key, "1")
        \/ \E key \in {"a", "b"}, default \in {None, "2"} :
              CallManager(t, "get", key, default)
        \/ GetCheck(t)
        \/ WriteData(t)
        \/ SaveConfig(t)
        \/ GetInstanceCheck(t)
        \/ AcquireLock(t)
        \/ GetInstanceCreate(t)
        \/ GetInstanceReturn(t)
        \/ CustomeConfig(t)
        \/ ConfigureService(t)

SpecConfig == InitConfig /\ [][NextConfig]_vars

\* thread t has finished a call of op
Finished(t, op) == at[t].op = op /\ at[t].line = 0

\* C28: a finished configure_service call with a valid service name and a
\* non-empty config dictionary has stored every key and value of the
\* dictionary in the ConfigManager and returned the success message
C28_ConfigStored ==
    \A t \in Threads :
        (/\ Finished(t, "configure_service")
         /\ at[t].service \in valid_services /\ at[t].config # {})
            => /\ reply[t] = "Successfully updated configuration"
               /\ \E i \in 1..Len(_config_data) :
                      at[t].config \subseteq {_config_data[i][k] : k \in 1..Len(_config_data[i])}

\* what the code does with such a call: the error message, nothing stored
C28_UpdateFails ==
    \E t \in Threads :
        /\ Finished(t, "configure_service")
        /\ at[t].service = "bedrock" /\ at[t].config = {<<"AWS_REGION", "us-west-2">>}
        /\ reply[t] = "Error: Configuration update failed"
        /\ \A i \in 1..Len(_config_data) : _config_data[i] = <<>>

\* the instances get_instance has constructed
MadeByGetInstance == {i \in 1..Len(made) : made[i] = "get_instance"}

\* C29: whatever the interleaving, get_instance constructs at most one
\* ConfigManager, every finished call returned an instance, and two calls
\* returned different instances only when custome_config put a new one in
\* place
C29_Singleton ==
    /\ Cardinality(MadeByGetInstance) <= 1
    /\ \A t \in Threads :
           Finished(t, "get_instance") => at[t].instance \in 1..Len(made)
    /\ \A t, u \in Threads :
           (/\ Finished(t, "get_instance") /\ Finished(u, "get_instance")
            /\ at[t].instance # at[u].instance)
               => \E i \in 1..Len(made) :
                      /\ made[i] = "custome_config"
                      /\ i \in {at[t].instance, at[u].instance}

\* two first calls raced: both found no instance at line 16, one constructed
\* it, and both returned the same instance
C29_Witness ==
    /\ Finished(1, "get_instance") /\ Finished(2, "get_instance")
    /\ at[1].first /\ at[2].first
    /\ made = <<"get_instance">>
    /\ at[1].instance = 1 /\ at[2].instance = 1

\* the glyph read is formula-classified (after bracket bridging)
ReadAsFormula == Bridge(Builder, GlyphRead, IsFormulaGlyph(Builder, GlyphRead))[1]

\* one of the three conditions that end a run holds for the glyph read
RunEnds ==
    \/ ~ReadAsFormula
    \/ GlyphClass(GlyphRead) # GlyphClass(xt)
    \/ (Last(sstk) # <<>> /\ 4 * Abs(GlyphRead.x0 - xt.x0) > PageWidth)

\* the placeholders in the paragraph texts
Placeholders(texts) ==
    Count("{", Concat(texts))

\* C30: a glyph read with a formula run open flushes the run exactly when the
\* glyph is not formula-classified, or its region differs from the previous
\* glyph's, or the paragraph text is non-empty and the glyph is more than a
\* quarter of the page width from the previous one.  Otherwise the glyph joins
\* the run and the texts and tables stay as they are.  A flush adds one
\* placeholder to the paragraph and one entry, the run, to each table, and
\* the accumulator is left with nothing but the glyph read when that is a
\* formula glyph, and with correction 0 unless that glyph sets its own
C30_FlushIff ==
    [][ (ReadsGlyph /\ vstk # <<>>) =>
          /\ (Len(var') = Len(var) + 1) <=> RunEnds
          /\ ~RunEnds =>
                 /\ vstk' = Append(vstk, GlyphRead)
                 /\ sstk' = sstk /\ var' = var /\ varl' = varl /\ varf' = varf
          /\ RunEnds =>
                 /\ var' = Append(var, vstk)
                 /\ varl' = Append(varl, vlstk)
                 /\ Len(varf') = Len(varf) + 1
                 /\ Placeholders(sstk') = Placeholders(sstk) + 1
                 /\ IsPrefix(Last(sstk) \o Placeholder(Len(var)), sstk'[Len(sstk)])
                 /\ vstk' = IF ReadAsFormula THEN <<GlyphRead>> ELSE <<>>
                 /\ vfix' = 0 \/ (ReadAsFormula /\ vfix' = GlyphRead.y0 - xt.y0) ]_vars

\* a formula glyph of the same region, far from the run it follows in a
\* paragraph that already has text, flushed the run and opened its own
C30_Witness ==
    /\ Len(evs) = 3 /\ Len(var) = 1
    /\ \A k \in 1..3 : evs[k].kind = "char"
    /\ var[1] = <<evs[2]>> /\ vstk = <<evs[3]>>
    /\ evs[3].cls = evs[2].cls /\ evs[3].font = MathFont
    /\ 4 * Abs(evs[3].x0 - evs[2].x0) > PageWidth
    /\ Len(sstk) = 1 /\ IsPrefix(<<evs[1].text>> \o Placeholder(0), sstk[1])

\* the glyph read is the first of the page, or its region is not the region
\* of the glyph before it
RegionChanges == xt = NoGlyph \/ GlyphClass(GlyphRead) # GlyphClass(xt)

\* C31: a glyph that is the first of its page, or whose region differs from
\* the previous glyph's, appends exactly one paragraph in its step, with an
\* empty text of its own and the anchor at the glyph's (x0, y0), whatever the
\* glyph's classification and whether or not a formula run was open
C31_NewParagraphOnRegion ==
    [][ (ReadsGlyph /\ RegionChanges) =>
          /\ Len(pstk') = Len(pstk) + 1 /\ Len(sstk') = Len(sstk) + 1
          /\ SubSeq(pstk', 1, Len(pstk)) = pstk
          /\ Last(pstk').x = GlyphRead.x0 /\ Last(pstk').y = GlyphRead.y0
          /\ Last(pstk').size = GlyphRead.size ]_vars

\* a formula glyph of another region arrived while a run was open: the run
\* was flushed into the first paragraph and the glyph started the second
C31_Witness ==
    /\ Len(evs) = 2 /\ \A k \in 1..2 : evs[k].kind = "char"
    /\ evs[1].cls # evs[2].cls /\ evs[2].font = MathFont
    /\ Len(var) = 1 /\ var[1] = <<evs[1]>> /\ vstk = <<evs[2]>>
    /\ Len(pstk) = 2 /\ pstk[2].x = evs[2].x0 /\ pstk[2].y = evs[2].y0

\* the font the composer chooses for a character
FontOf(ch) == IF TiroHas(ch) THEN Tiro ELSE NotoName

\* C32: in a paragraph with the line-break flag, a character or formula is
\* placed where cursor + advance stays within the right boundary + 0.1 x
\* size, or else at the left boundary; when the cursor wraps the buffered run
\* has been emitted with the old line index and font, so the buffer never
\* holds characters of two lines or of two fonts
C32_PlacedWithinOrAtLeft ==
    [][ (pc = "walk" /\ pc' = "walk" /\ pstk[id].brk /\ (CurMarker.ok => CurResolves)) =>
          LET p  == pstk[id]
              n0 == Len(cs.ops_vals) + (IF cs.cstk # <<>> THEN 1 ELSE 0)
              xp == IF CurMarker.ok THEN cs'.ops_vals[n0 + 1].x
                    ELSE IF cs'.cstk = <<>> THEN cs'.x ELSE cs'.x - CurAdvance
          IN  /\ 10 * (xp + CurAdvance) <= 10 * p.x1 + p.size \/ xp = p.x0
              /\ (cs'.lidx # cs.lidx /\ cs.cstk # <<>>) =>
                    /\ Len(cs'.ops_vals) >= n0
                    /\ cs'.ops_vals[n0].type = "text"
                    /\ cs'.ops_vals[n0].lidx = cs.lidx
                    /\ cs'.ops_vals[n0].font = cs.fcur
                    /\ cs'.ops_vals[n0].rtxt = raw_string(cs.fcur, cs.cstk)
              /\ cs'.lidx # cs.lidx => Len(cs'.cstk) <= 1
              /\ \A k \in 1..Len(cs'.cstk) : FontOf(cs'.cstk[k]) = cs'.fcur ]_vars

\* a buffered run was emitted on line 0 and the character that crossed the
\* boundary starts the buffer at the left boundary on line 1
C32_Witness ==
    /\ pc = "walk" /\ pstk[id].brk /\ cs.lidx = 1
    /\ cs.cstk # <<>> /\ cs.tx = pstk[id].x0
    /\ \E k \in 1..Len(cs.ops_vals) :
          cs.ops_vals[k].type = "text" /\ cs.ops_vals[k].lidx = 0

\* anchor y + font size of a paragraph
Top(p) == p.y + p.size

\* C33: no step changes anchor y + font size of a paragraph: where the size
\* alignment changes the size, the anchor moves by the opposite amount; a
\* paragraph starts with the y0 and the size of its first glyph, so the sum
\* stays that glyph's y0 + size
C33_TopConstant ==
    [][ pc = "build" =>
          /\ Len(pstk') >= Len(pstk)
          /\ \A i \in 1..Len(pstk) :
                /\ Top(pstk'[i]) = Top(pstk[i])
                /\ pstk'[i].y - pstk[i].y = -(pstk'[i].size - pstk[i].size)
          /\ \A i \in (Len(pstk) + 1)..Len(pstk') :
                ReadsGlyph /\ Top(pstk'[i]) = GlyphRead.y0 + GlyphRead.size ]_vars

\* a larger second glyph changed the paragraph's size and moved its anchor
C33_Witness ==
    /\ Len(evs) = 2 /\ \A k \in 1..2 : evs[k].kind = "char"
    /\ Len(pstk) = 1
    /\ pstk[1].size > evs[1].size /\ pstk[1].y < evs[1].y0
    /\ Top(pstk[1]) = evs[1].y0 + evs[1].size

\* the step is a write to the configuration data made by thread t
Writes(t) == at'[t] # at[t] /\ _config_data' # _config_data

\* the value the dict of t's instance holds for t's key was stored by a set
\* call that has returned
HoldsCompletedSet(t) ==
    \E u \in Threads :
        /\ Finished(u, "set")
        /\ at[u].key = at[t].key /\ at[u].instance = at[t].instance
        /\ \E i \in 1..Len(_config_data[at[t].instance]) :
               _config_data[at[t].instance][i] = <<at[u].key, at[u].value>>

\* C34: every write to the configuration data is made by a thread that holds
\* the lock, and a write-back of get never replaces a value that a completed
\* set has stored
C34_WritesUnderLock ==
    [][ \A t \in Threads :
          /\ Writes(t) => _lock = t
          /\ (Writes(t) /\ at[t].op = "get") => ~HoldsCompletedSet(t) ]_vars

\* the second half of C34 alone
C34_NoLostUpdate ==
    [][ \A t \in Threads :
          (Writes(t) /\ at[t].op = "get") => ~HoldsCompletedSet(t) ]_vars

\* what the code allows: get found the key absent, set stored its value and
\* returned, and get's write-back put the default in its place
C34_LostUpdate ==
    \E t, u \in Threads :
        /\ Finished(t, "get") /\ Finished(u, "set")
        /\ at[t].key = at[u].key /\ at[t].instance = at[u].instance
        /\ reply[t] = "2"
        /\ \E i \in 1..Len(_config_data[at[t].instance]) :
               _config_data[at[t].instance][i] = <<at[t].key, "2">>

\* the step is the return of a set, or of a get that wrote back
Saves(t) == at[t].line \in {106, 112, 125} /\ at'[t].line = 0

\* C35: when a set, or a get that wrote a value back, returns, the content of
\* the config file equals the configuration data in memory
C35_FileEqualsMemory ==
    [][ \A t \in Threads :
          Saves(t) => config_json'[at[t].instance] = _config_data'[at[t].instance] ]_vars

\* what the code does: two keys were set to the same object, both calls have
\* returned, and the file holds None for the second key
C35_FileDiffers ==
    \E t, u \in Threads :
        /\ Finished(t, "set") /\ Finished(u, "set") /\ at[t].key # at[u].key
        /\ _lock = 0 /\ \A w \in Threads : at[w].line = 0
        /\ _config_data[at[t].instance] = <<<<at[t].key, "1">>, <<at[u].key, "1">>>>
        /\ config_json[at[t].instance] = <<<<at[t].key, "1">>, <<at[u].key, None>>>>

\* C36: the paragraph texts and attributes have one entry per paragraph, the
\* formula glyph, line and offset tables one entry per formula group, every
\* group has a glyph, and once composition has started the translated texts
\* match the paragraphs and the width table matches the formula table.  (The
\* first three lines are invariants of the builder's own states as well.)
C36_ListsAligned ==
    /\ Len(sstk) = Len(pstk)
    /\ Len(var) = Len(varl) /\ Len(varl) = Len(varf)
    /\ \A i \in 1..Len(var) : var[i] # <<>>
    /\ pc \in {"compose", "walk", "returned"} =>
          /\ Len(news) = Len(sstk) /\ Len(news) = Len(pstk)
          /\ Len(vlen) = Len(var)

\* composition starts on a page of two paragraphs and a formula group
C36_Witness ==
    /\ pc = "compose" /\ id = 1 /\ ops_list = <<>>
    /\ Len(news) >= 2 /\ Len(var) >= 1

\* a text that begins with the placeholder of formula group k
BeginsWithPlaceholder(s, k) == IsPrefix(Placeholder(k), s)

RECURSIVE TextObjectsBalanced(_, _)
TextObjectsBalanced(s, open) ==
    IF s = <<>> THEN ~open
    ELSE IF s[1].op = "BT" THEN ~open /\ TextObjectsBalanced(Tail(s), TRUE)
    ELSE IF s[1].op = "ET" THEN open /\ TextObjectsBalanced(Tail(s), FALSE)
    ELSE IF IsLineOp(s[1]) THEN ~open /\ TextObjectsBalanced(Tail(s), open)
    ELSE open /\ TextObjectsBalanced(Tail(s), open)

\* C38: in the returned operator stream 'BT ' and 'ET ' strictly alternate,
\* from a first 'BT ' to a last 'ET '; every text run lies inside an open text
\* object and every line run outside one
C38_TextObjectsAlternate ==
    pc = "returned" =>
        /\ ops[1].op = "BT" /\ Last(ops).op = "ET"
        /\ TextObjectsBalanced(ops, FALSE)

\* a returned stream with a formula's line between text runs and a global
\* line after the last text run
C38_Witness ==
    /\ pc = "returned"
    /\ \E i, j, k \in 1..Len(ops) :
          /\ i < j /\ j < k
          /\ IsLineOp(ops[i]) /\ ops[j].op = "Tf Tm TJ" /\ IsLineOp(ops[k])
          /\ \A m \in (k + 1)..Len(ops) : ops[m].op # "Tf Tm TJ"
          /\ \E m \in 1..(i - 1) : ops[m].op = "Tf Tm TJ"

\* the locals of a paragraph's walk when the while loop has ended
RECURSIVE WalkAll(_, _, _)
WalkAll(c, new, p) ==
    IF c.ptr > Len(new) THEN c
    ELSE WalkAll(WalkStep(c, new, p, var, varl, varf, vlen), new, p)

\* the operators of paragraph i, from its translated text and the tables
ParagraphOps(i) ==
    LET p  == pstk[i]
        c  == FlushRun(WalkAll(InitWalk(p), news[i], p), p.size)
        lh == Compress(DefaultLineHeight(lang_out), c.lidx, p.size, p.y1 - p.y0)
    IN  RecordOps(c.ops_vals, p, lh)

\* the stream of the run without debug logging on the same events and
\* translations: the paragraphs' operators and the lines the builder left in
\* the global line list, inside one text object
QuietStream ==
    LET own == SelectSeq(BuildPage(evs).lstk, LAMBDA l : l.linewidth < DecorativeWidth)
    IN  <<[op |-> "BT"]>>
        \o Concat([i \in 1..Len(news) |-> ParagraphOps(i)])
        \o Concat([k \in 1..Len(own) |->
                     gen_op(LineRecord(own[k].x0, 20 * own[k].y0, own[k].linewidth,
                                       own[k].x1 - own[k].x0, own[k].y1 - own[k].y0, 0))])
        \o <<[op |-> "ET"]>>

\* C39: the operator stream returned for a page is the stream of the run
\* without debug logging on the same events and translations, whether or not
\* debug logging is enabled
C39_SameWithDebug ==
    pc = "returned" => ops = QuietStream

\* without debug logging the returned stream is that stream
C39_QuietRun ==
    (pc = "returned" /\ ~debug) => ops = QuietStream

\* with debug logging the returned stream ends with the trace lines, which the
\* page's events do not hold
C39_TraceDrawn ==
    /\ pc = "returned" /\ debug
    /\ Len(ops) > Len(QuietStream)
    /\ IsPrefix(SubSeq(QuietStream, 1, Len(QuietStream) - 1), ops)
    /\ IsLineOp(ops[Len(ops) - 2]) /\ ops[Len(ops) - 2].linewidth = TraceWidth

\* line 116: the constructor's default for thread
DefaultThread == 0

\* C40: the dispatcher's worker pool has at least one worker, whatever thread
\* argument the converter was constructed with, the default included, so
\* receive_layout does not fail when the pool is created
C40_PoolHasWorker ==
    /\ thread >= 1
    /\ ~(pc = "raised" /\ fut = <<>> /\ failure = "ValueError")

\* a converter constructed with the default thread argument: the pool is
\* refused, no text is dispatched and receive_layout raises
C40_DefaultFails ==
    /\ thread = DefaultThread
    /\ pc = "raised" /\ failure = "ValueError"
    /\ fut = <<>> /\ news = <<>> /\ ops = <<>>
    /\ sstk # <<>> /\ \A i \in 1..Len(sstk) : calls[i] = 0

=============================================================================
